---- MODULE Spec2Model ----
(***************************************************************************)
(* muxy: segment trie (src/src/muxy/tree.py) and the Router facade         *)
(* (src/src/muxy/_asgi/router.py).                                         *)
(*                                                                         *)
(* Strings are sequences of one-character strings, so that split, join,    *)
(* startswith/endswith and slicing are computed, not assumed.  A LeafKey   *)
(* member is an Enum object that no str equals; it is the 1-tuple holding  *)
(* the member's (multi-character) name, which no character sequence        *)
(* equals.  An optional WildCardNode / CatchAllNode is <<>> (None) or the  *)
(* 1-tuple holding the record.  Handlers and middleware are opaque         *)
(* callables compared by identity: they are names.                         *)
(***************************************************************************)
EXTENDS Integers, Sequences, FiniteSets, TLC

VARIABLES
    tree,         \* Router._tree
    finalized,    \* Router._finalized
    call,         \* the Router method entered last, with its arguments
    ret,          \* what that call returned or raised
    pc,           \* position inside find_handler: "idle", "loop", "leaf"
    method,       \* find_handler's method argument
    segments,     \* find_handler: segments
    i,            \* find_handler: index of the segment the loop is at (1-based)
    current,      \* find_handler: current
    params,       \* find_handler: params
    route_parts,  \* find_handler: route_parts
    child_router, \* the _tree of a second Router, the one that is mounted
    lifespan,     \* Router._handle_lifespan: its position, and the messages sent
    cache,        \* the lru_cache of find_handler, least recently used first
    heap,         \* the params dicts find_handler created, by identity
    tasks         \* the tasks dispatching requests, each with its own Context

vars == <<tree, finalized, call, ret, pc, method, segments, i, current, params, route_parts,
          child_router, lifespan, cache, heap, tasks>>
routerVars == <<tree, finalized>>
frameVars == <<method, segments, i, current, params, route_parts>>
extVars == <<child_router, lifespan, cache, heap, tasks>>

----------------------------------------------------------------------------
\* Bounds of the model.
MaxRoutes == 2      \* registrations are offered while the tree holds fewer routes
MaxUse == 2         \* use() is offered while the root holds fewer middleware
MaxMessages == 3    \* lifespan messages are delivered while fewer were received
maxsize == 2        \* the maxsize of find_handler's lru_cache (1024 in the source)

----------------------------------------------------------------------------
\* str primitives

None == "None"

\* s[1:]
Drop1(s) == SubSeq(s, 2, Len(s))

\* s.startswith(p)
StartsWith(s, p) == Len(s) >= Len(p) /\ SubSeq(s, 1, Len(p)) = p

\* s.endswith(p)
EndsWith(s, p) == Len(s) >= Len(p) /\ SubSeq(s, Len(s) - Len(p) + 1, Len(s)) = p

\* s.upper(), on ASCII letters
LowerCase == <<"a", "b", "c", "d", "e", "f", "g", "h", "i", "j", "k", "l", "m",
               "n", "o", "p", "q", "r", "s", "t", "u", "v", "w", "x", "y", "z">>
UpperCase == <<"A", "B", "C", "D", "E", "F", "G", "H", "I", "J", "K", "L", "M",
               "N", "O", "P", "Q", "R", "S", "T", "U", "V", "W", "X", "Y", "Z">>
Upper(s) ==
    [k \in 1..Len(s) |->
        IF \E n \in 1..Len(LowerCase) : LowerCase[n] = s[k]
        THEN UpperCase[CHOOSE n \in 1..Len(LowerCase) : LowerCase[n] = s[k]]
        ELSE s[k]]

\* s.split("/")
RECURSIVE Split(_)

\* split that ignores one trailing "/"
Split_strip_trailing(s) ==
    IF Len(s) > 0 /\ s[Len(s)] = "/"
    THEN Split(SubSeq(s, 1, Len(s) - 1))
    ELSE IF \A k \in 1..Len(s) : s[k] # "/"
    THEN <<s>>
    ELSE LET k == CHOOSE j \in 1..Len(s) :
                      s[j] = "/" /\ \A l \in 1..(j - 1) : s[l] # "/"
         IN <<SubSeq(s, 1, k - 1)>> \o Split(SubSeq(s, k + 1, Len(s)))

Split(s) ==
    IF \A k \in 1..Len(s) : s[k] # "/"
    THEN <<s>>
    ELSE LET k == CHOOSE j \in 1..Len(s) :
                      s[j] = "/" /\ \A l \in 1..(j - 1) : s[l] # "/"
         IN <<SubSeq(s, 1, k - 1)>> \o Split(SubSeq(s, k + 1, Len(s)))

\* "/".join(parts)
RECURSIVE Join(_)
Join(parts) ==
    IF Len(parts) = 0 THEN <<>>
    ELSE IF Len(parts) = 1 THEN parts[1]
    ELSE parts[1] \o <<"/">> \o Join(Tail(parts))

----------------------------------------------------------------------------
\* LeafKey and Node

LeafKey(name) == <<name>>
CONNECT == LeafKey("CONNECT")
DELETE == LeafKey("DELETE")
GET == LeafKey("GET")
HEAD == LeafKey("HEAD")
OPTIONS == LeafKey("OPTIONS")
PATCH == LeafKey("PATCH")
POST == LeafKey("POST")
PUT == LeafKey("PUT")
TRACE == LeafKey("TRACE")
ANY_HTTP == LeafKey("ANY_HTTP")
WEBSOCKET == LeafKey("WEBSOCKET")

\* the value of each member, as a str
LeafKeyValue(k) ==
    CASE k = CONNECT -> <<"C", "O", "N", "N", "E", "C", "T">>
      [] k = DELETE -> <<"D", "E", "L", "E", "T", "E">>
      [] k = GET -> <<"G", "E", "T">>
      [] k = HEAD -> <<"H", "E", "A", "D">>
      [] k = OPTIONS -> <<"O", "P", "T", "I", "O", "N", "S">>
      [] k = PATCH -> <<"P", "A", "T", "C", "H">>
      [] k = POST -> <<"P", "O", "S", "T">>
      [] k = PUT -> <<"P", "U", "T">>
      [] k = TRACE -> <<"T", "R", "A", "C", "E">>
      [] k = ANY_HTTP -> <<"A", "N", "Y", "_", "H", "T", "T", "P">>
      [] k = WEBSOCKET -> <<"W", "E", "B", "S", "O", "C", "K", "E", "T">>

HTTPMethods == {CONNECT, DELETE, GET, HEAD, OPTIONS, PATCH, POST, PUT, TRACE}
LeafKeys == HTTPMethods \cup {ANY_HTTP, WEBSOCKET}

\* isinstance(k, LeafKey)
IsLeafKey(k) == k \in LeafKeys

\* LeafKey(value): the 1-tuple holding the member with that value, or <<>>
\* where the Enum raises ValueError
LeafKeyOf(value) ==
    IF \E k \in LeafKeys : LeafKeyValue(k) = value
    THEN <<CHOOSE k \in LeafKeys : LeafKeyValue(k) = value>>
    ELSE <<>>

Node(h, mw, ch, wc, ca, nfh, mnah) ==
    [handler |-> h, middleware |-> mw, children |-> ch, wildcard |-> wc,
     catchall |-> ca, not_found_handler |-> nfh,
     method_not_allowed_handler |-> mnah]

\* Node()
EmptyNode == Node(None, <<>>, <<>>, <<>>, <<>>, None, None)

\* WildCardNode(name, child) / CatchAllNode(name, child)
Param(name, child) == <<[name |-> name, child |-> child]>>

\* FrozenDict({k: v})
Single(k, v) == k :> v

----------------------------------------------------------------------------
\* Results of the functions that can raise ValueError

Ok(n) == [err |-> "", node |-> n]
Raise(msg) == [err |-> msg, node |-> EmptyNode]

----------------------------------------------------------------------------
\* _construct_sub_tree

IsCatchallSeg(seg) == StartsWith(seg, <<"{">>) /\ EndsWith(seg, <<".", ".", ".", "}">>)
IsWildcardSeg(seg) == StartsWith(seg, <<"{">>) /\ EndsWith(seg, <<"}">>)

\* one iteration of "for seg in reversed(segments)"
WrapSeg(seg, child) ==
    IF IsCatchallSeg(seg)
    THEN Node(None, <<>>, <<>>, <<>>, Param(SubSeq(seg, 2, Len(seg) - 4), child), None, None)
    ELSE IF IsWildcardSeg(seg)
    THEN Node(None, <<>>, <<>>, Param(SubSeq(seg, 2, Len(seg) - 1), child), <<>>, None, None)
    ELSE Node(None, <<>>, Single(seg, child), <<>>, <<>>, None, None)

RECURSIVE WrapSegs(_, _, _)
WrapSegs(segs, k, child) ==
    IF k = 0 THEN child ELSE WrapSegs(segs, k - 1, WrapSeg(segs[k], child))

\* _construct_sub_tree wrapping the child in the segments in reverse order
construct_sub_tree_reversed(path, child) ==
    IF ~StartsWith(path, <<"/">>)
    THEN Raise("path must start with '/'")
    ELSE LET segs == Split(Drop1(path))
             rev == [k \in 1..Len(segs) |-> segs[Len(segs) + 1 - k]]
         IN Ok(WrapSegs(rev, Len(rev), child))

construct_sub_tree(path, child) ==
    IF ~StartsWith(path, <<"/">>)
    THEN Raise("path must start with '/'")
    ELSE LET segs == Split(Drop1(path))
         IN Ok(WrapSegs(segs, Len(segs), child))

\* _construct_route_tree
construct_route_tree(m, path, handler, middleware) ==
    LET leaf == Node(handler, middleware, <<>>, <<>>, <<>>, None, None)
        child == Node(None, <<>>, Single(m, leaf), <<>>, <<>>, None, None)
    IN construct_sub_tree(path, child)

----------------------------------------------------------------------------
\* _merge_trees

\* "a or b" on optional values
OrElse(a, b, none) == IF a # none THEN a ELSE b

RECURSIVE merge_trees(_, _)

\* _merge_trees without the handler check: tree1's handler wins
merge_trees_first_handler(tree1, tree2) ==
    IF FALSE
    THEN Raise("nodes have conflicting handlers")
    ELSE IF /\ tree1.not_found_handler # None
            /\ tree2.not_found_handler # None
            /\ tree1.not_found_handler # tree2.not_found_handler
    THEN Raise("nodes have conflicting not found handlers")
    ELSE IF /\ tree1.method_not_allowed_handler # None
            /\ tree2.method_not_allowed_handler # None
            /\ tree1.method_not_allowed_handler # tree2.method_not_allowed_handler
    THEN Raise("nodes have conflicting method not allowed handlers")
    ELSE IF tree2.middleware # <<>> /\ tree1.middleware # tree2.middleware
    THEN Raise("node being merged in has conflicting middleware")
    ELSE IF /\ tree1.wildcard # <<>>
            /\ tree2.wildcard # <<>>
            /\ tree1.wildcard[1].name # tree2.wildcard[1].name
    THEN Raise("nodes have conflicting wildcards")
    ELSE
    LET wc == IF tree1.wildcard # <<>> /\ tree2.wildcard # <<>>
              THEN merge_trees(tree1.wildcard[1].child, tree2.wildcard[1].child)
              ELSE Ok(EmptyNode)
    IN
    IF wc.err # "" THEN wc
    ELSE IF /\ tree1.catchall # <<>>
            /\ tree2.catchall # <<>>
            /\ tree1.catchall[1].name # tree2.catchall[1].name
    THEN Raise("nodes have conclicting catchalls")
    ELSE
    LET ca == IF tree1.catchall # <<>> /\ tree2.catchall # <<>>
              THEN merge_trees(tree1.catchall[1].child, tree2.catchall[1].child)
              ELSE Ok(EmptyNode)
    IN
    IF ca.err # "" THEN ca
    ELSE
    LET tree1_keys == DOMAIN tree1.children
        tree2_keys == DOMAIN tree2.children
        common_keys == tree1_keys \cap tree2_keys
        merged == [k \in common_keys |->
                      merge_trees(tree1.children[k], tree2.children[k])]
        failed == {k \in common_keys : merged[k].err # ""}
    IN
    \* the dict comprehension raises at the first common key (in set order)
    \* whose merge raises
    IF failed # {} THEN merged[CHOOSE k \in failed : TRUE]
    ELSE Ok(Node(
        OrElse(tree1.handler, tree2.handler, None),
        OrElse(tree1.middleware, tree2.middleware, <<>>),
        [k \in tree1_keys \cup tree2_keys |->
            IF k \in common_keys THEN merged[k].node
            ELSE IF k \in tree1_keys THEN tree1.children[k]
            ELSE tree2.children[k]],
        IF tree1.wildcard # <<>> /\ tree2.wildcard # <<>>
        THEN Param(tree1.wildcard[1].name, wc.node)
        ELSE OrElse(tree1.wildcard, tree2.wildcard, <<>>),
        IF tree1.catchall # <<>> /\ tree2.catchall # <<>>
        THEN Param(tree1.catchall[1].name, ca.node)
        ELSE OrElse(tree1.catchall, tree2.catchall, <<>>),
        OrElse(tree1.not_found_handler, tree2.not_found_handler, None),
        OrElse(tree1.method_not_allowed_handler,
               tree2.method_not_allowed_handler, None)))

\* _merge_trees keeping tree1's child under a key both trees have
merge_trees_keep_first(tree1, tree2) ==
    IF /\ tree1.handler # None
       /\ tree2.handler # None
       /\ tree1.handler # tree2.handler
    THEN Raise("nodes have conflicting handlers")
    ELSE IF /\ tree1.not_found_handler # None
            /\ tree2.not_found_handler # None
            /\ tree1.not_found_handler # tree2.not_found_handler
    THEN Raise("nodes have conflicting not found handlers")
    ELSE IF /\ tree1.method_not_allowed_handler # None
            /\ tree2.method_not_allowed_handler # None
            /\ tree1.method_not_allowed_handler # tree2.method_not_allowed_handler
    THEN Raise("nodes have conflicting method not allowed handlers")
    ELSE IF tree2.middleware # <<>> /\ tree1.middleware # tree2.middleware
    THEN Raise("node being merged in has conflicting middleware")
    ELSE IF /\ tree1.wildcard # <<>>
            /\ tree2.wildcard # <<>>
            /\ tree1.wildcard[1].name # tree2.wildcard[1].name
    THEN Raise("nodes have conflicting wildcards")
    ELSE
    LET wc == IF tree1.wildcard # <<>> /\ tree2.wildcard # <<>>
              THEN merge_trees(tree1.wildcard[1].child, tree2.wildcard[1].child)
              ELSE Ok(EmptyNode)
    IN
    IF wc.err # "" THEN wc
    ELSE IF /\ tree1.catchall # <<>>
            /\ tree2.catchall # <<>>
            /\ tree1.catchall[1].name # tree2.catchall[1].name
    THEN Raise("nodes have conclicting catchalls")
    ELSE
    LET ca == IF tree1.catchall # <<>> /\ tree2.catchall # <<>>
              THEN merge_trees(tree1.catchall[1].child, tree2.catchall[1].child)
              ELSE Ok(EmptyNode)
    IN
    IF ca.err # "" THEN ca
    ELSE
    LET tree1_keys == DOMAIN tree1.children
        tree2_keys == DOMAIN tree2.children
        common_keys == tree1_keys \cap tree2_keys
        merged == [k \in common_keys |-> Ok(tree1.children[k])]
        failed == {k \in common_keys : merged[k].err # ""}
    IN
    \* the dict comprehension raises at the first common key (in set order)
    \* whose merge raises
    IF failed # {} THEN merged[CHOOSE k \in failed : TRUE]
    ELSE Ok(Node(
        OrElse(tree1.handler, tree2.handler, None),
        OrElse(tree1.middleware, tree2.middleware, <<>>),
        [k \in tree1_keys \cup tree2_keys |->
            IF k \in common_keys THEN merged[k].node
            ELSE IF k \in tree1_keys THEN tree1.children[k]
            ELSE tree2.children[k]],
        IF tree1.wildcard # <<>> /\ tree2.wildcard # <<>>
        THEN Param(tree1.wildcard[1].name, wc.node)
        ELSE OrElse(tree1.wildcard, tree2.wildcard, <<>>),
        IF tree1.catchall # <<>> /\ tree2.catchall # <<>>
        THEN Param(tree1.catchall[1].name, ca.node)
        ELSE OrElse(tree1.catchall, tree2.catchall, <<>>),
        OrElse(tree1.not_found_handler, tree2.not_found_handler, None),
        OrElse(tree1.method_not_allowed_handler,
               tree2.method_not_allowed_handler, None)))

merge_trees(tree1, tree2) ==
    IF /\ tree1.handler # None
       /\ tree2.handler # None
       /\ tree1.handler # tree2.handler
    THEN Raise("nodes have conflicting handlers")
    ELSE IF /\ tree1.not_found_handler # None
            /\ tree2.not_found_handler # None
            /\ tree1.not_found_handler # tree2.not_found_handler
    THEN Raise("nodes have conflicting not found handlers")
    ELSE IF /\ tree1.method_not_allowed_handler # None
            /\ tree2.method_not_allowed_handler # None
            /\ tree1.method_not_allowed_handler # tree2.method_not_allowed_handler
    THEN Raise("nodes have conflicting method not allowed handlers")
    ELSE IF tree2.middleware # <<>> /\ tree1.middleware # tree2.middleware
    THEN Raise("node being merged in has conflicting middleware")
    ELSE IF /\ tree1.wildcard # <<>>
            /\ tree2.wildcard # <<>>
            /\ tree1.wildcard[1].name # tree2.wildcard[1].name
    THEN Raise("nodes have conflicting wildcards")
    ELSE
    LET wc == IF tree1.wildcard # <<>> /\ tree2.wildcard # <<>>
              THEN merge_trees(tree1.wildcard[1].child, tree2.wildcard[1].child)
              ELSE Ok(EmptyNode)
    IN
    IF wc.err # "" THEN wc
    ELSE IF /\ tree1.catchall # <<>>
            /\ tree2.catchall # <<>>
            /\ tree1.catchall[1].name # tree2.catchall[1].name
    THEN Raise("nodes have conclicting catchalls")
    ELSE
    LET ca == IF tree1.catchall # <<>> /\ tree2.catchall # <<>>
              THEN merge_trees(tree1.catchall[1].child, tree2.catchall[1].child)
              ELSE Ok(EmptyNode)
    IN
    IF ca.err # "" THEN ca
    ELSE
    LET tree1_keys == DOMAIN tree1.children
        tree2_keys == DOMAIN tree2.children
        common_keys == tree1_keys \cap tree2_keys
        merged == [k \in common_keys |->
                      merge_trees(tree1.children[k], tree2.children[k])]
        failed == {k \in common_keys : merged[k].err # ""}
    IN
    \* the dict comprehension raises at the first common key (in set order)
    \* whose merge raises
    IF failed # {} THEN merged[CHOOSE k \in failed : TRUE]
    ELSE Ok(Node(
        OrElse(tree1.handler, tree2.handler, None),
        OrElse(tree1.middleware, tree2.middleware, <<>>),
        [k \in tree1_keys \cup tree2_keys |->
            IF k \in common_keys THEN merged[k].node
            ELSE IF k \in tree1_keys THEN tree1.children[k]
            ELSE tree2.children[k]],
        IF tree1.wildcard # <<>> /\ tree2.wildcard # <<>>
        THEN Param(tree1.wildcard[1].name, wc.node)
        ELSE OrElse(tree1.wildcard, tree2.wildcard, <<>>),
        IF tree1.catchall # <<>> /\ tree2.catchall # <<>>
        THEN Param(tree1.catchall[1].name, ca.node)
        ELSE OrElse(tree1.catchall, tree2.catchall, <<>>),
        OrElse(tree1.not_found_handler, tree2.not_found_handler, None),
        OrElse(tree1.method_not_allowed_handler,
               tree2.method_not_allowed_handler, None)))

\* add_route
add_route(t, m, path, handler, middleware) ==
    LET new_tree == construct_route_tree(m, path, handler, middleware)
    IN IF new_tree.err # "" THEN new_tree ELSE merge_trees(t, new_tree.node)

----------------------------------------------------------------------------
\* _cascade_middleware

RECURSIVE cascade_middleware(_, _)
cascade_middleware(t, middleware) ==
    LET mw == IF t.middleware # <<>> THEN middleware \o t.middleware ELSE middleware
    IN [t EXCEPT
          !.middleware = IF t.handler # None THEN mw ELSE <<>>,
          !.wildcard = IF t.wildcard # <<>>
                       THEN Param(t.wildcard[1].name,
                                  cascade_middleware(t.wildcard[1].child, mw))
                       ELSE <<>>,
          !.catchall = IF t.catchall # <<>>
                       THEN Param(t.catchall[1].name,
                                  cascade_middleware(t.catchall[1].child, mw))
                       ELSE <<>>,
          !.children = [k \in DOMAIN t.children |->
                           cascade_middleware(t.children[k], mw)]]

\* mount_tree merging the child in at the root whatever the path
mount_tree_at_root(path, parent, child) ==
    LET c == IF child.middleware # <<>> THEN cascade_middleware(child, <<>>) ELSE child
    IN merge_trees(parent, c)

\* mount_tree merging the child in as it is, its middleware left on its root
mount_tree_no_cascade(path, parent, child) ==
    IF path = <<"/">>
    THEN merge_trees(parent, child)
    ELSE LET sub_tree == construct_sub_tree(path, child)
         IN IF sub_tree.err # "" THEN sub_tree
            ELSE merge_trees(parent, sub_tree.node)

\* mount_tree
mount_tree(path, parent, child) ==
    LET c == IF child.middleware # <<>> THEN cascade_middleware(child, <<>>) ELSE child
    IN IF path = <<"/">>
       THEN merge_trees(parent, c)
       ELSE LET sub_tree == construct_sub_tree(path, c)
            IN IF sub_tree.err # "" THEN sub_tree
               ELSE merge_trees(parent, sub_tree.node)

----------------------------------------------------------------------------
\* finalize_tree

RECURSIVE finalize_tree(_, _, _, _)

\* finalize_tree handing its children the middleware it was given, without
\* the node's own
finalize_tree_own_dropped(t, not_found_handler, method_not_allowed_handler, middleware) ==
    LET nfh == IF t.not_found_handler = None
               THEN not_found_handler ELSE t.not_found_handler
        mnah == IF t.method_not_allowed_handler = None
                THEN method_not_allowed_handler ELSE t.method_not_allowed_handler
        mw == IF t.middleware # <<>> THEN middleware \o t.middleware ELSE middleware
    IN [t EXCEPT
          !.not_found_handler = nfh,
          !.method_not_allowed_handler = mnah,
          !.middleware = IF mw # <<>> THEN mw ELSE t.middleware,
          !.wildcard = IF t.wildcard # <<>>
                       THEN Param(t.wildcard[1].name,
                                  finalize_tree(t.wildcard[1].child, nfh, mnah, middleware))
                       ELSE <<>>,
          !.catchall = IF t.catchall # <<>>
                       THEN Param(t.catchall[1].name,
                                  finalize_tree(t.catchall[1].child, nfh, mnah, middleware))
                       ELSE <<>>,
          !.children = [k \in DOMAIN t.children |->
                           finalize_tree(t.children[k], nfh, mnah, middleware)]]

\* finalize_tree that forgets the subtree below a wildcard
finalize_tree_no_wildcard(t, not_found_handler, method_not_allowed_handler, middleware) ==
    LET nfh == IF t.not_found_handler = None
               THEN not_found_handler ELSE t.not_found_handler
        mnah == IF t.method_not_allowed_handler = None
                THEN method_not_allowed_handler ELSE t.method_not_allowed_handler
        mw == IF t.middleware # <<>> THEN middleware \o t.middleware ELSE middleware
    IN [t EXCEPT
          !.not_found_handler = nfh,
          !.method_not_allowed_handler = mnah,
          !.middleware = IF mw # <<>> THEN mw ELSE t.middleware,
          !.catchall = IF t.catchall # <<>>
                       THEN Param(t.catchall[1].name,
                                  finalize_tree(t.catchall[1].child, nfh, mnah, mw))
                       ELSE <<>>,
          !.children = [k \in DOMAIN t.children |->
                           finalize_tree(t.children[k], nfh, mnah, mw)]]

\* finalize_tree handing its children the defaults it was given, whatever
\* the node overrides
finalize_tree_root_default(t, not_found_handler, method_not_allowed_handler, middleware) ==
    LET nfh == IF t.not_found_handler = None
               THEN not_found_handler ELSE t.not_found_handler
        mnah == IF t.method_not_allowed_handler = None
                THEN method_not_allowed_handler ELSE t.method_not_allowed_handler
        mw == IF t.middleware # <<>> THEN middleware \o t.middleware ELSE middleware
    IN [t EXCEPT
          !.not_found_handler = nfh,
          !.method_not_allowed_handler = mnah,
          !.middleware = IF mw # <<>> THEN mw ELSE t.middleware,
          !.wildcard = IF t.wildcard # <<>>
                       THEN Param(t.wildcard[1].name,
                                  finalize_tree(t.wildcard[1].child, not_found_handler, method_not_allowed_handler, mw))
                       ELSE <<>>,
          !.catchall = IF t.catchall # <<>>
                       THEN Param(t.catchall[1].name,
                                  finalize_tree(t.catchall[1].child, not_found_handler, method_not_allowed_handler, mw))
                       ELSE <<>>,
          !.children = [k \in DOMAIN t.children |->
                           finalize_tree(t.children[k], not_found_handler, method_not_allowed_handler, mw)]]

finalize_tree(t, not_found_handler, method_not_allowed_handler, middleware) ==
    LET nfh == IF t.not_found_handler = None
               THEN not_found_handler ELSE t.not_found_handler
        mnah == IF t.method_not_allowed_handler = None
                THEN method_not_allowed_handler ELSE t.method_not_allowed_handler
        mw == IF t.middleware # <<>> THEN middleware \o t.middleware ELSE middleware
    IN [t EXCEPT
          !.not_found_handler = nfh,
          !.method_not_allowed_handler = mnah,
          !.middleware = IF mw # <<>> THEN mw ELSE t.middleware,
          !.wildcard = IF t.wildcard # <<>>
                       THEN Param(t.wildcard[1].name,
                                  finalize_tree(t.wildcard[1].child, nfh, mnah, mw))
                       ELSE <<>>,
          !.catchall = IF t.catchall # <<>>
                       THEN Param(t.catchall[1].name,
                                  finalize_tree(t.catchall[1].child, nfh, mnah, mw))
                       ELSE <<>>,
          !.children = [k \in DOMAIN t.children |->
                           finalize_tree(t.children[k], nfh, mnah, mw)]]

----------------------------------------------------------------------------
\* _collect_routes: the routes of a tree, each <<method, path, handler,
\* middleware>>, the method "*" for ANY_HTTP and the member's value otherwise

RECURSIVE collect_routes(_, _)
collect_routes(node, parts) ==
    LET keys == DOMAIN node.children
        leaves == {k \in keys : IsLeafKey(k) /\ node.children[k].handler # None}
    IN {<<IF k = ANY_HTTP THEN <<"*">> ELSE LeafKeyValue(k),
          <<"/">> \o Join(parts),
          node.children[k].handler,
          node.children[k].middleware>> : k \in leaves}
       \cup UNION {collect_routes(node.children[k], Append(parts, k)) :
                     k \in {x \in keys : ~IsLeafKey(x)}}
       \cup (IF node.wildcard # <<>>
             THEN collect_routes(node.wildcard[1].child,
                                 Append(parts, <<"{">> \o node.wildcard[1].name \o <<"}">>))
             ELSE {})
       \cup (IF node.catchall # <<>>
             THEN collect_routes(node.catchall[1].child,
                                 Append(parts, <<"{">> \o node.catchall[1].name
                                               \o <<".", ".", ".", "}">>))
             ELSE {})

----------------------------------------------------------------------------
\* find_handler, one step of its control flow at a time

\* params[k] = v
SetItem(d, k, v) == [x \in DOMAIN d \cup {k} |-> IF x = k THEN v ELSE d[x]]

\* what a call returned or raised
Returned == [kind |-> "ok", msg |-> "", handler |-> None, middleware |-> <<>>,
             params |-> <<>>, route |-> <<>>, wrapped |-> <<>>,
             applied |-> <<>>, events |-> <<>>]
Raised(msg) == [Returned EXCEPT !.kind = "raise", !.msg = msg]
NoReturn == [Returned EXCEPT !.kind = "none"]

\* the middleware tuple folded without reversing it
Reversed_missing(s) == s

\* reversed(s)
Reversed(s) == [k \in 1..Len(s) |-> s[Len(s) + 1 - k]]

\* reduce(lambda h, m: m(h), ms, acc); the callable m(h) is the chain of
\* names <<m>> \o h, outermost first
RECURSIVE Reduce(_, _)
Reduce(ms, acc) ==
    IF ms = <<>> THEN acc ELSE Reduce(Tail(ms), <<Head(ms)>> \o acc)

\* the factories in the order reduce(lambda h, m: m(h), ms, acc) calls them
RECURSIVE ReduceCalls(_)
ReduceCalls(ms) ==
    IF ms = <<>> THEN <<>> ELSE <<Head(ms)>> \o ReduceCalls(Tail(ms))

\* Router._handler, after find_handler returned
Found(handler, middleware, ps, route) ==
    [Returned EXCEPT !.kind = "found", !.handler = handler,
                     !.middleware = middleware, !.params = ps, !.route = route,
                     !.wrapped = Reduce(Reversed(middleware), <<handler>>),
                     !.applied = ReduceCalls(Reversed(middleware))]

\* awaiting the callable `chain`: a middleware wrapper runs, awaits the
\* handler it wraps and resumes when that returns
RECURSIVE Run(_)
Run(chain) ==
    IF Len(chain) = 1
    THEN << <<"call", chain[1]>> >>
    ELSE << <<"enter", chain[1]>> >> \o Run(Tail(chain))
                                     \o << <<"exit", chain[1]>> >>

\* Router.__call__ after self._handler returned: "await handler(...)" under
\* the path_params / http_route bindings
Invoke(c, r) ==
    IF c.op = "__call__" /\ r.kind = "found"
    THEN [r EXCEPT !.events = Run(r.wrapped)]
    ELSE r

\* the not-found return wrapped in the node's cascaded middleware
ReturnNotFound_with_middleware(node) ==
    IF node.not_found_handler = None
    THEN Raised("No not found handler set")
    ELSE Found(node.not_found_handler, node.middleware, <<>>, <<>>)

\* "return current.not_found_handler, (), {}, ''", or the ValueError before it
ReturnNotFound(node) ==
    IF node.not_found_handler = None
    THEN Raised("No not found handler set")
    ELSE Found(node.not_found_handler, <<>>, <<>>, <<>>)

\* the loop body with the wildcard tried before the exact-match children
LoopBody_wildcard_first(node, segs, k, ps, parts) ==
    LET seg == segs[k]
    IN IF node.wildcard # <<>>
       THEN [go |-> "continue", current |-> node.wildcard[1].child,
             params |-> SetItem(ps, node.wildcard[1].name, seg),
             route_parts |-> Append(parts, <<"{">> \o node.wildcard[1].name \o <<"}">>)]
       ELSE IF seg \in DOMAIN node.children
       THEN [go |-> "continue", current |-> node.children[seg], params |-> ps,
             route_parts |-> Append(parts, seg)]
       ELSE IF node.catchall # <<>>
       THEN [go |-> "break", current |-> node.catchall[1].child,
             params |-> SetItem(ps, node.catchall[1].name,
                                Join(SubSeq(segs, k, Len(segs)))),
             route_parts |-> Append(parts, <<"{">> \o node.catchall[1].name
                                           \o <<".", ".", ".", "}">>)]
       ELSE [go |-> "return", current |-> node, params |-> ps, route_parts |-> parts]

\* the loop body with the catchall tried before the wildcard
LoopBody_catchall_first(node, segs, k, ps, parts) ==
    LET seg == segs[k]
    IN IF seg \in DOMAIN node.children
       THEN [go |-> "continue", current |-> node.children[seg], params |-> ps,
             route_parts |-> Append(parts, seg)]
       ELSE IF node.catchall # <<>>
       THEN [go |-> "break", current |-> node.catchall[1].child,
             params |-> SetItem(ps, node.catchall[1].name,
                                Join(SubSeq(segs, k, Len(segs)))),
             route_parts |-> Append(parts, <<"{">> \o node.catchall[1].name
                                           \o <<".", ".", ".", "}">>)]
       ELSE IF node.wildcard # <<>>
       THEN [go |-> "continue", current |-> node.wildcard[1].child,
             params |-> SetItem(ps, node.wildcard[1].name, seg),
             route_parts |-> Append(parts, <<"{">> \o node.wildcard[1].name \o <<"}">>)]
       ELSE [go |-> "return", current |-> node, params |-> ps, route_parts |-> parts]

\* one iteration of "for i, seg in enumerate(segments)" at node `node`:
\* what the frame becomes, and whether the loop goes on, breaks or returns
LoopBody(node, segs, k, ps, parts) ==
    LET seg == segs[k]
    IN IF seg \in DOMAIN node.children
       THEN [go |-> "continue", current |-> node.children[seg], params |-> ps,
             route_parts |-> Append(parts, seg)]
       ELSE IF node.wildcard # <<>>
       THEN [go |-> "continue", current |-> node.wildcard[1].child,
             params |-> SetItem(ps, node.wildcard[1].name, seg),
             route_parts |-> Append(parts, <<"{">> \o node.wildcard[1].name \o <<"}">>)]
       ELSE IF node.catchall # <<>>
       THEN [go |-> "break", current |-> node.catchall[1].child,
             params |-> SetItem(ps, node.catchall[1].name,
                                Join(SubSeq(segs, k, Len(segs)))),
             route_parts |-> Append(parts, <<"{">> \o node.catchall[1].name
                                           \o <<".", ".", ".", "}">>)]
       ELSE [go |-> "return", current |-> node, params |-> ps, route_parts |-> parts]

\* the method lookup answering 405 whenever no leaf matches, without looking
\* for method-token children
LeafLookup_always_405(node, m, ps, parts) ==
    LET keys == DOMAIN node.children
    IN IF m \notin keys /\ ANY_HTTP \notin keys
       THEN IF node.method_not_allowed_handler = None
            THEN Raised("No method not allowed handler set")
            ELSE Found(node.method_not_allowed_handler, <<>>, ps, <<>>)
       ELSE LET leaf == IF m \in keys THEN node.children[m]
                        ELSE node.children[ANY_HTTP]
            IN IF leaf.handler = None
               THEN ReturnNotFound(node)
               ELSE Found(leaf.handler, leaf.middleware, ps,
                          <<"/">> \o Join(parts))

\* the method lookup trying the ANY_HTTP leaf before the method's own leaf
LeafLookup_any_first(node, m, ps, parts) ==
    LET keys == DOMAIN node.children
    IN IF m \notin keys /\ ANY_HTTP \notin keys
       THEN IF \E k \in keys : IsLeafKey(k)
            THEN IF node.method_not_allowed_handler = None
                 THEN Raised("No method not allowed handler set")
                 ELSE Found(node.method_not_allowed_handler, <<>>, ps, <<>>)
            ELSE ReturnNotFound(node)
       ELSE LET leaf == IF ANY_HTTP \in keys THEN node.children[ANY_HTTP]
                        ELSE node.children[m]
            IN IF leaf.handler = None
               THEN ReturnNotFound(node)
               ELSE Found(leaf.handler, leaf.middleware, ps,
                          <<"/">> \o Join(parts))

\* the method lookup falling back to ANY_HTTP for the HTTP methods only
LeafLookup_any_http_only(node, m, ps, parts) ==
    LET keys == DOMAIN node.children
        any == ANY_HTTP \in keys /\ m \in HTTPMethods
    IN IF m \notin keys /\ ~any
       THEN IF \E k \in keys : IsLeafKey(k)
            THEN IF node.method_not_allowed_handler = None
                 THEN Raised("No method not allowed handler set")
                 ELSE Found(node.method_not_allowed_handler, <<>>, ps, <<>>)
            ELSE ReturnNotFound(node)
       ELSE LET leaf == IF m \in keys THEN node.children[m]
                        ELSE node.children[ANY_HTTP]
            IN IF leaf.handler = None
               THEN ReturnNotFound(node)
               ELSE Found(leaf.handler, leaf.middleware, ps,
                          <<"/">> \o Join(parts))

\* the method lookup letting a catchall of the node match zero segments when
\* the node has no leaf for the request
LeafLookup_catchall_zero(node, m, ps, parts) ==
    LET keys == DOMAIN node.children
        zero == /\ m \notin keys /\ ANY_HTTP \notin keys
                /\ node.catchall # <<>>
                /\ m \in DOMAIN node.catchall[1].child.children
    IN IF zero
       THEN LET leaf == node.catchall[1].child.children[m]
            IN Found(leaf.handler, leaf.middleware,
                     SetItem(ps, node.catchall[1].name, <<>>),
                     <<"/">> \o Join(Append(parts, <<"{">> \o node.catchall[1].name
                                                   \o <<".", ".", ".", "}">>)))
       ELSE IF m \notin keys /\ ANY_HTTP \notin keys
       THEN IF \E k \in keys : IsLeafKey(k)
            THEN IF node.method_not_allowed_handler = None
                 THEN Raised("No method not allowed handler set")
                 ELSE Found(node.method_not_allowed_handler, <<>>, ps, <<>>)
            ELSE ReturnNotFound(node)
       ELSE LET leaf == IF m \in keys THEN node.children[m]
                        ELSE node.children[ANY_HTTP]
            IN IF leaf.handler = None
               THEN ReturnNotFound(node)
               ELSE Found(leaf.handler, leaf.middleware, ps,
                          <<"/">> \o Join(parts))

\* lines 161-181: the method lookup at the node the segments led to
LeafLookup(node, m, ps, parts) ==
    LET keys == DOMAIN node.children
    IN IF m \notin keys /\ ANY_HTTP \notin keys
       THEN IF \E k \in keys : IsLeafKey(k)
            THEN IF node.method_not_allowed_handler = None
                 THEN Raised("No method not allowed handler set")
                 ELSE Found(node.method_not_allowed_handler, <<>>, ps, <<>>)
            ELSE ReturnNotFound(node)
       ELSE LET leaf == IF m \in keys THEN node.children[m]
                        ELSE node.children[ANY_HTTP]
            IN IF leaf.handler = None
               THEN ReturnNotFound(node)
               ELSE Found(leaf.handler, leaf.middleware, ps,
                          <<"/">> \o Join(parts))

\* find_handler(path, method, tree) from call to return: the loop over the
\* segments from index k on, then the method lookup
RECURSIVE Walk(_, _, _, _, _, _)
Walk(node, m, segs, k, ps, parts) ==
    IF k > Len(segs)
    THEN LeafLookup(node, m, ps, parts)
    ELSE LET b == LoopBody(node, segs, k, ps, parts)
         IN IF b.go = "return" THEN ReturnNotFound(b.current)
            ELSE IF b.go = "break"
            THEN LeafLookup(b.current, m, b.params, b.route_parts)
            ELSE Walk(b.current, m, segs, k + 1, b.params, b.route_parts)

find_handler(path, m, t) == Walk(t, m, Split(Drop1(path)), 1, <<>>, <<>>)

----------------------------------------------------------------------------
\* Inputs

H1 == "h1"
H2 == "h2"
NF == "nf"
MNA == "mna"
M1 == "m1"
M2 == "m2"
M3 == "m3"

NF2 == "nf2"

Str_root == <<"/">>
Str_noslash == <<"a">>
Str_b == <<"/", "b">>
Str_x == <<"/", "{", "x", "}">>
Str_a == <<"/", "a">>
Str_a_ == <<"/", "a", "/">>
Str_a_b == <<"/", "a", "/", "b">>
Str_a_c == <<"/", "a", "/", "c">>
Str_a_c_b == <<"/", "a", "/", "c", "/", "b">>
Str_a_c_d == <<"/", "a", "/", "c", "/", "d">>
Str_a_x == <<"/", "a", "/", "{", "x", "}">>
Str_a_x_b == <<"/", "a", "/", "{", "x", "}", "/", "b">>
Str_a_p == <<"/", "a", "/", "{", "p", ".", ".", ".", "}">>
Str_x_x == <<"/", "{", "x", "}", "/", "{", "x", "}">>

Route(m, path, handler, middleware) ==
    [method |-> m, path |-> path, handler |-> handler, middleware |-> middleware]

\* the registrations offered to the router
Routes ==
    { Route(GET, Str_root, H1, <<>>),
      Route(GET, Str_a, H1, <<>>),
      Route(GET, Str_a, H2, <<>>),
      Route(ANY_HTTP, Str_a, H2, <<M2>>),
      Route(WEBSOCKET, Str_a, H1, <<>>),
      Route(GET, Str_a_, H2, <<>>),
      Route(GET, Str_a_b, H2, <<M2>>),
      Route(GET, Str_a_x, H1, <<>>),
      Route(GET, Str_a_x_b, H1, <<>>),
      Route(GET, Str_a_p, H2, <<>>),
      Route(GET, Str_x_x, H1, <<>>),
      Route(GET, Str_noslash, H1, <<>>) }

\* the requests offered to the router
Request(m, path) == [method |-> m, path |-> path]
Requests ==
    { Request(GET, Str_root),
      Request(GET, Str_a),
      Request(POST, Str_a),
      Request(WEBSOCKET, Str_a),
      Request(GET, Str_a_),
      Request(GET, Str_a_b),
      Request(POST, Str_a_b),
      Request(GET, Str_a_c),
      Request(GET, Str_a_c_b),
      Request(GET, Str_a_c_d) }

\* the ASGI scopes offered to Router.__call__
Scope(type, m, path) == [type |-> type, method |-> m, path |-> path]
Scopes ==
    { Scope("http", <<"g", "e", "t">>, Str_a_b),
      Scope("http", <<"P", "R", "O", "P", "F", "I", "N", "D">>, Str_root),
      Scope("http", <<"G", "E", "T">>, <<>>),
      Scope("websocket", <<>>, Str_a) }

\* the routers offered to mount: the trees of
\*   r = Router(); r.use(M2); r.get("/b", H2, middleware=(M3,))
\*   r = Router(not_found_handler=NF2); r.get("/{x}", H1)
SubRouters ==
    { add_route([EmptyNode EXCEPT !.middleware = <<M2>>], GET, Str_b, H2, <<M3>>).node,
      add_route([EmptyNode EXCEPT !.not_found_handler = NF2], GET, Str_x, H1, <<>>).node }
Prefixes == {Str_root, Str_a, Str_a_}

\* the paths offered to mount_tree
Str__a == <<"/", "/", "a">>
MountPaths == {Str_root, Str_a, Str_a_b, Str__a, Str_x}

\* number of routes (leaves with a handler) a tree holds
RECURSIVE RouteCount(_)
RECURSIVE SumOver(_, _)
SumOver(f, S) ==
    IF S = {} THEN 0
    ELSE LET k == CHOOSE x \in S : TRUE
         IN RouteCount(f[k]) + SumOver(f, S \ {k})
RouteCount(t) ==
    (IF t.handler # None THEN 1 ELSE 0)
    + (IF t.wildcard # <<>> THEN RouteCount(t.wildcard[1].child) ELSE 0)
    + (IF t.catchall # <<>> THEN RouteCount(t.catchall[1].child) ELSE 0)
    + SumOver(t.children, DOMAIN t.children)

----------------------------------------------------------------------------
\* The Router

Call(op, path, m, handler, middleware) ==
    [op |-> op, path |-> path, method |-> m, handler |-> handler,
     middleware |-> middleware, router |-> <<>>, defaults |-> <<>>]
NoCall == Call("", <<>>, <<>>, None, <<>>)

BlankFrame ==
    /\ method' = <<>>
    /\ segments' = <<>>
    /\ i' = 0
    /\ current' = EmptyNode
    /\ params' = <<>>
    /\ route_parts' = <<>>

\* the state outside the router and the running lookup, before anything ran
NoLifespan == [pc |-> "idle", message |-> "", reply |-> "", received |-> <<>>, sent |-> <<>>]
ExtInit ==
    /\ child_router = EmptyNode
    /\ lifespan = NoLifespan
    /\ cache = <<>>
    /\ heap = <<>>
    /\ tasks = <<>>

\* Router.__init__(not_found_handler=..., method_not_allowed_handler=...)
Init ==
    /\ \E nfh \in {None, NF}, mnah \in {None, MNA} :
           tree = Node(None, <<>>, <<>>, <<>>, <<>>, nfh, mnah)
    /\ finalized = FALSE
    /\ call = NoCall
    /\ ret = NoReturn
    /\ pc = "idle"
    /\ method = <<>>
    /\ segments = <<>>
    /\ i = 0
    /\ current = EmptyNode
    /\ params = <<>>
    /\ route_parts = <<>>
    /\ ExtInit

\* a builder call that stores what the builder left behind also when it raises
Build_assign_on_raise(res) ==
    /\ tree' = res.node
    /\ ret' = IF res.err = "" THEN Returned ELSE Raised(res.err)
    /\ UNCHANGED <<finalized, pc, frameVars>>

\* a builder call that replaces self._tree by `res`, or raises
Build(res) ==
    /\ IF res.err = ""
       THEN tree' = res.node /\ ret' = Returned
       ELSE tree' = tree /\ ret' = Raised(res.err)
    /\ UNCHANGED <<finalized, pc, frameVars>>

\* Router.method (get, post, ..., websocket and handle are this call with
\* the method token fixed)
Method(r) ==
    /\ pc = "idle"
    /\ RouteCount(tree) < MaxRoutes
    /\ call' = Call("method", r.path, r.method, r.handler, r.middleware)
    /\ Build(add_route(tree, r.method, r.path, r.handler, r.middleware))

\* Router.use
Use(m) ==
    /\ pc = "idle"
    /\ Len(tree.middleware) < MaxUse
    /\ call' = Call("use", <<>>, <<>>, None, <<m>>)
    /\ Build(Ok([tree EXCEPT !.middleware = tree.middleware \o <<m>>]))

\* Router.not_found
NotFound(h) ==
    /\ pc = "idle"
    /\ call' = Call("not_found", <<>>, <<>>, h, <<>>)
    /\ Build(IF tree.not_found_handler # None
             THEN Raise("not found handler is already set")
             ELSE Ok([tree EXCEPT !.not_found_handler = h]))

\* Router.method_not_allowed
MethodNotAllowed(h) ==
    /\ pc = "idle"
    /\ call' = Call("method_not_allowed", <<>>, <<>>, h, <<>>)
    /\ Build(IF tree.method_not_allowed_handler # None
             THEN Raise("method not allowed handler is already set")
             ELSE Ok([tree EXCEPT !.method_not_allowed_handler = h]))

\* Router.mount
Mount(path, router) ==
    /\ pc = "idle"
    /\ RouteCount(tree) < MaxRoutes
    /\ call' = [Call("mount", path, <<>>, None, <<>>) EXCEPT !.router = <<router>>]
    /\ Build(IF EndsWith(path, <<"/">>) /\ path # <<"/">>
             THEN Raise("mount path cannot end in /")
             ELSE mount_tree(path, tree, router))

\* Router.finalize as a function of (self._tree, self._finalized): the new
\* tree and flag, and the message of the ValueError it raises ("" if none)
finalize(t, f) ==
    IF f
    THEN [tree |-> t, finalized |-> f, err |-> ""]
    ELSE IF t.not_found_handler = None
    THEN [tree |-> t, finalized |-> f,
          err |-> "Router does not have not_found_handler"]
    ELSE IF t.method_not_allowed_handler = None
    THEN [tree |-> t, finalized |-> f,
          err |-> "Router does not have method_not_allowed_handler"]
    ELSE [tree |-> finalize_tree(t, t.not_found_handler,
                                 t.method_not_allowed_handler, <<>>),
          finalized |-> TRUE, err |-> ""]

\* Router.finalize
Finalize ==
    /\ pc = "idle"
    /\ call' = Call("finalize", <<>>, <<>>, None, <<>>)
    /\ LET res == finalize(tree, finalized)
       IN /\ tree' = res.tree
          /\ finalized' = res.finalized
          /\ ret' = IF res.err = "" THEN Returned ELSE Raised(res.err)
    /\ UNCHANGED <<pc, frameVars>>

\* Router.__call__ with a lifespan scope, on a "lifespan.startup" message:
\* _handle_lifespan calls self.finalize() and sends startup.complete, or
\* catches the exception and sends startup.failed
Lifespan ==
    /\ pc = "idle"
    /\ call' = Call("lifespan.startup", <<>>, <<>>, None, <<>>)
    /\ LET res == finalize(tree, finalized)
       IN /\ tree' = res.tree
          /\ finalized' = res.finalized
          /\ ret' = [Returned EXCEPT !.msg = IF res.err = ""
                                             THEN "lifespan.startup.complete"
                                             ELSE "lifespan.startup.failed"]
    /\ UNCHANGED <<pc, frameVars>>

\* find_handler(path, method, tree) up to its first loop iteration
Enter(m, path) ==
    /\ ret' = NoReturn
    /\ pc' = "loop"
    /\ method' = m
    /\ segments' = Split(Drop1(path))
    /\ i' = 1
    /\ current' = tree
    /\ params' = <<>>
    /\ route_parts' = <<>>
    /\ UNCHANGED routerVars

\* Router._handler finalizing the tree before the lookup when it is not
\* finalized yet
Handler_lazy_finalize(m, path) ==
    /\ pc = "idle"
    /\ call' = Call("_handler", path, m, None, <<>>)
    /\ LET res == finalize(tree, finalized)
       IN /\ tree' = res.tree
          /\ finalized' = res.finalized
          /\ IF res.err # ""
             THEN /\ ret' = Raised(res.err)
                  /\ UNCHANGED <<pc, frameVars>>
             ELSE /\ ret' = NoReturn
                  /\ pc' = "loop"
                  /\ method' = m
                  /\ segments' = Split(Drop1(path))
                  /\ i' = 1
                  /\ current' = res.tree
                  /\ params' = <<>>
                  /\ route_parts' = <<>>

\* Router._handler(method, path): find_handler on self._tree
Handler(m, path) ==
    /\ pc = "idle"
    /\ call' = Call("_handler", path, m, None, <<>>)
    /\ Enter(m, path)

\* Router.__call__ with an http or websocket scope, up to the first loop
\* iteration of find_handler: LeafKey(scope["method"].upper()) for http,
\* LeafKey.WEBSOCKET otherwise, and scope.get("path", "")
Dispatch(scope) ==
    /\ pc = "idle"
    /\ call' = Call("__call__", scope.path, scope.method, None, <<>>)
    /\ LET key == IF scope.type = "http" THEN LeafKeyOf(Upper(scope.method))
                  ELSE <<WEBSOCKET>>
       IN IF key = <<>>
          THEN /\ ret' = Raised("is not a valid LeafKey")
               /\ UNCHANGED <<routerVars, pc, frameVars>>
          ELSE Enter(key[1], scope.path)

\* find_handler: one iteration of the loop over the segments
LoopStep ==
    /\ pc = "loop"
    /\ LET b == LoopBody(current, segments, i, params, route_parts)
       IN IF b.go = "return"
          THEN /\ ret' = Invoke(call, ReturnNotFound(current))
               /\ pc' = "idle"
               /\ BlankFrame
          ELSE /\ current' = b.current
               /\ params' = b.params
               /\ route_parts' = b.route_parts
               /\ i' = i + 1
               /\ pc' = IF b.go = "break" \/ i = Len(segments)
                        THEN "leaf" ELSE "loop"
               /\ UNCHANGED <<ret, method, segments>>
    /\ UNCHANGED <<routerVars, call>>

\* find_handler after the loop, and Router._handler's return
LeafStep ==
    /\ pc = "leaf"
    /\ ret' = Invoke(call, LeafLookup(current, method, params, route_parts))
    /\ pc' = "idle"
    /\ BlankFrame
    /\ UNCHANGED <<routerVars, call>>

Next ==
    \/ \E r \in Routes : Method(r) /\ UNCHANGED extVars
    \/ Use(IF tree.middleware = <<>> THEN M1 ELSE M3) /\ UNCHANGED extVars
    \/ \E h \in {NF} : NotFound(h) /\ UNCHANGED extVars
    \/ \E h \in {MNA} : MethodNotAllowed(h) /\ UNCHANGED extVars
    \/ Finalize /\ UNCHANGED extVars
    \/ Lifespan /\ UNCHANGED extVars
    \/ \E path \in Prefixes, router \in SubRouters : Mount(path, router) /\ UNCHANGED extVars
    \/ \E q \in Requests : Handler(q.method, q.path) /\ UNCHANGED extVars
    \/ \E scope \in Scopes : Dispatch(scope) /\ UNCHANGED extVars
    \/ LoopStep /\ UNCHANGED extVars
    \/ LeafStep /\ UNCHANGED extVars

Spec == Init /\ [][Next]_vars

----------------------------------------------------------------------------
\* The trie algebra driven directly, as tests/test_tree.py drives it: a tree
\* is built from Node() by add_route, mount_tree and Node.update, which puts
\* middleware on the root as Router.use does, finalize_tree is applied
\* to it once, and find_handler is called on the result.  Here `finalized`
\* says that `tree` is the result of finalize_tree.

TreeInit ==
    /\ tree = EmptyNode
    /\ finalized = FALSE
    /\ call = NoCall
    /\ ret = NoReturn
    /\ pc = "idle"
    /\ method = <<>>
    /\ segments = <<>>
    /\ i = 0
    /\ current = EmptyNode
    /\ params = <<>>
    /\ route_parts = <<>>
    /\ ExtInit

AddRoute(r) ==
    /\ pc = "idle"
    /\ ~finalized
    /\ RouteCount(tree) < MaxRoutes
    /\ call' = Call("add_route", r.path, r.method, r.handler, r.middleware)
    /\ Build(add_route(tree, r.method, r.path, r.handler, r.middleware))

MountTree(path, child) ==
    /\ pc = "idle"
    /\ ~finalized
    /\ RouteCount(tree) < MaxRoutes
    /\ call' = [Call("mount_tree", path, <<>>, None, <<>>) EXCEPT !.router = <<child>>]
    /\ Build(mount_tree(path, tree, child))

\* tree.update(middleware=tree.middleware + (m,))
Update(m) ==
    /\ pc = "idle"
    /\ ~finalized
    /\ Len(tree.middleware) < MaxUse
    /\ call' = Call("update", <<>>, <<>>, None, <<m>>)
    /\ tree' = [tree EXCEPT !.middleware = @ \o <<m>>]
    /\ ret' = Returned
    /\ UNCHANGED <<finalized, pc, frameVars>>

FinalizeTree(d1, d2) ==
    /\ pc = "idle"
    /\ ~finalized
    /\ call' = [Call("finalize_tree", <<>>, <<>>, None, <<>>)
                    EXCEPT !.defaults = <<d1, d2>>]
    /\ tree' = finalize_tree(tree, d1, d2, <<>>)
    /\ finalized' = TRUE
    /\ ret' = Returned
    /\ UNCHANGED <<pc, frameVars>>

FindHandler(m, path) ==
    /\ pc = "idle"
    /\ finalized
    /\ call' = Call("find_handler", path, m, None, <<>>)
    /\ Enter(m, path)

TreeNext ==
    \/ \E r \in Routes : AddRoute(r) /\ UNCHANGED extVars
    \/ \E path \in MountPaths, child \in SubRouters : MountTree(path, child) /\ UNCHANGED extVars
    \/ Update(IF tree.middleware = <<>> THEN M1 ELSE M3) /\ UNCHANGED extVars
    \/ \E d1 \in {NF, MNA}, d2 \in {NF, MNA} : FinalizeTree(d1, d2) /\ UNCHANGED extVars
    \/ \E q \in Requests : FindHandler(q.method, q.path) /\ UNCHANGED extVars
    \/ LoopStep /\ UNCHANGED extVars
    \/ LeafStep /\ UNCHANGED extVars

TreeSpec == TreeInit /\ [][TreeNext]_vars

----------------------------------------------------------------------------
\* @lru_cache(maxsize=...) around find_handler.  `cache` holds the entries
\* from the least to the most recently used; an entry keeps the tuple that
\* find_handler returned, whose params dict is an object of `heap`.

\* the identity of a new object: unused in `h`
NewId(h) == CHOOSE id \in 1..(Cardinality(DOMAIN h) + 1) : id \notin DOMAIN h

\* the objects of `h` that are still referenced
Collect(h, ids) == [id \in DOMAIN h \cap ids |-> h[id]]

\* the dicts that the entries of the cache `c` hold
CacheIds(c) == {c[k].params : k \in 1..Len(c)}

Remove(s, k) == SubSeq(s, 1, k - 1) \o SubSeq(s, k + 1, Len(s))

\* the cache keyed on (path, method) alone
cached_find_handler_no_tree(c, h, path, m, t) ==
    LET key == <<path, m>>
        hits == {k \in 1..Len(c) : <<c[k].key[1], c[k].key[2]>> = key}
    IN IF hits # {}
       THEN LET k == CHOOSE x \in hits : TRUE
            IN [cache |-> Append(Remove(c, k), c[k]), heap |-> h,
                res |-> Found(c[k].handler, c[k].middleware, h[c[k].params], c[k].route),
                params |-> <<c[k].params>>]
       ELSE LET res == find_handler(path, m, t)
            IN IF res.kind = "raise"
               THEN [cache |-> c, heap |-> h, res |-> res, params |-> <<>>]
               ELSE LET id == NewId(h)
                        kept == IF Len(c) >= maxsize THEN Tail(c) ELSE c
                        entry == [key |-> <<path, m, t>>, handler |-> res.handler,
                                  middleware |-> res.middleware, params |-> id,
                                  route |-> res.route]
                    IN [cache |-> Append(kept, entry),
                        heap |-> [x \in DOMAIN h \cup {id} |->
                                    IF x = id THEN res.params ELSE h[x]],
                        res |-> res, params |-> <<id>>]

\* find_handler(path, method, tree) through the cache `c`, with the dicts of
\* `h`: the cache and the heap afterwards, the tuple returned (or the error
\* raised, which is not cached) and the identity of its params dict
cached_find_handler(c, h, path, m, t) ==
    LET key == <<path, m, t>>
        hits == {k \in 1..Len(c) : c[k].key = key}
    IN IF hits # {}
       THEN LET k == CHOOSE x \in hits : TRUE
            IN [cache |-> Append(Remove(c, k), c[k]), heap |-> h,
                res |-> Found(c[k].handler, c[k].middleware, h[c[k].params], c[k].route),
                params |-> <<c[k].params>>]
       ELSE LET res == find_handler(path, m, t)
            IN IF res.kind = "raise"
               THEN [cache |-> c, heap |-> h, res |-> res, params |-> <<>>]
               ELSE LET id == NewId(h)
                        kept == IF Len(c) >= maxsize THEN Tail(c) ELSE c
                        entry == [key |-> key, handler |-> res.handler,
                                  middleware |-> res.middleware, params |-> id,
                                  route |-> res.route]
                    IN [cache |-> Append(kept, entry),
                        heap |-> [x \in DOMAIN h \cup {id} |->
                                    IF x = id THEN res.params ELSE h[x]],
                        res |-> res, params |-> <<id>>]

\* the finalized trees and the requests that find_handler is called with
CacheTrees ==
    { finalize_tree(add_route(EmptyNode, GET, Str_a_x, H1, <<>>).node, NF, MNA, <<>>),
      finalize_tree(add_route(EmptyNode, GET, Str_a_b, H2, <<M2>>).node, NF, MNA, <<>>) }
CacheRequests ==
    { Request(GET, Str_a_b),
      Request(GET, Str_a_c),
      Request(POST, Str_a_b) }

\* find_handler(path, method, t) called directly; the caller drops the tuple
CachedFindHandler(m, path, t) ==
    /\ pc = "idle"
    /\ call' = [Call("find_handler", path, m, None, <<>>) EXCEPT !.router = <<t>>]
    /\ LET r == cached_find_handler(cache, heap, path, m, t)
       IN /\ ret' = r.res
          /\ cache' = r.cache
          /\ heap' = Collect(r.heap, CacheIds(r.cache))
    /\ UNCHANGED <<routerVars, pc, frameVars, child_router, lifespan, tasks>>

CacheNext ==
    \E q \in CacheRequests, t \in CacheTrees : CachedFindHandler(q.method, q.path, t)

CacheSpec == TreeInit /\ [][CacheNext]_vars

----------------------------------------------------------------------------
\* Router.__call__ under asyncio: every request is dispatched in a task, a
\* task runs in its own copy of the context, and tasks interleave where a
\* handler awaits.  `tasks` maps a task to its context (the values that
\* path_params and http_route are bound to, <<>> when unbound), the Tokens
\* that the `with` statement holds, what the handler read, and how the
\* dispatch ended.

Tasks == {"t1", "t2"}

\* a context without bindings, and the context of a task that was started
\* inside the bindings of an enclosing dispatch
Unbound == [path_params |-> <<>>, http_route |-> <<>>]
Outer == [path_params |-> <<1>>, http_route |-> <<Str_a_p>>]
OuterHeap == [id \in {1} |-> SetItem(<<>>, <<"p">>, <<"a", "/", "b">>)]

NewTask(context) ==
    [pc |-> "new", scope |-> Request(GET, <<>>), context |-> context,
     before |-> context, tokens |-> <<>>, seen |-> <<>>, mutated |-> FALSE,
     ended |-> "", outcome |-> ""]

\* the router that serves the tasks, finalized, and their requests
TaskTree ==
    finalize_tree(add_route(EmptyNode, GET, Str_a_x, H1, <<>>).node, NF, MNA, <<>>)
TaskRequests ==
    { Request(GET, Str_a_b),
      Request(GET, Str_a_c),
      Request(GET, Str_b) }

\* the number of reads of the bindings in one handler
MaxGets == 2

\* the dicts that the contexts and the Tokens of the tasks `ts` refer to
TaskIds(ts) ==
    UNION {{ts[t].context.path_params[k] : k \in 1..Len(ts[t].context.path_params)}
             \cup (IF ts[t].tokens = <<>> THEN {}
                   ELSE {ts[t].tokens[1][k] : k \in 1..Len(ts[t].tokens[1])})
             \cup {ts[t].before.path_params[k] : k \in 1..Len(ts[t].before.path_params)}
           : t \in DOMAIN ts}

TaskInit ==
    /\ tree = TaskTree
    /\ finalized = TRUE
    /\ call = NoCall
    /\ ret = NoReturn
    /\ pc = "idle"
    /\ method = <<>>
    /\ segments = <<>>
    /\ i = 0
    /\ current = EmptyNode
    /\ params = <<>>
    /\ route_parts = <<>>
    /\ child_router = EmptyNode
    /\ lifespan = NoLifespan
    /\ cache = <<>>
    /\ heap = OuterHeap
    /\ tasks = [t \in Tasks |-> NewTask(IF t = "t1" THEN Unbound ELSE Outer)]

\* the dispatch with path_params and http_route as globals: set() binds the
\* value in the context of every task
TaskCall_global(t, scope) ==
    /\ tasks[t].pc = "new"
    /\ LET r == cached_find_handler(cache, heap, scope.path, scope.method, tree)
           c == tasks[t].context
       IN /\ r.res.kind = "found"
          /\ cache' = r.cache
          /\ tasks' = [u \in Tasks |->
                IF u = t
                THEN [tasks[t] EXCEPT
                        !.pc = "handler", !.scope = scope, !.before = c,
                        !.tokens = <<c.path_params, c.http_route>>,
                        !.context = [path_params |-> r.params,
                                     http_route |-> <<r.res.route>>]]
                ELSE [tasks[u] EXCEPT
                        !.context = [path_params |-> r.params,
                                     http_route |-> <<r.res.route>>]]]
          /\ heap' = Collect(r.heap, CacheIds(r.cache) \cup TaskIds(tasks'))
    /\ UNCHANGED <<routerVars, call, ret, pc, frameVars, child_router, lifespan>>

\* Router.__call__ in task t, up to "await handler(...)": self._handler
\* looks the request up through the cache, and path_params.set(params) and
\* http_route.set(route) bind the results in the task's context and give
\* the Tokens that hold the values bound before
TaskCall(t, scope) ==
    /\ tasks[t].pc = "new"
    /\ LET r == cached_find_handler(cache, heap, scope.path, scope.method, tree)
           c == tasks[t].context
       IN /\ r.res.kind = "found"
          /\ cache' = r.cache
          /\ tasks' = [tasks EXCEPT ![t] =
                [@ EXCEPT !.pc = "handler", !.scope = scope, !.before = c,
                          !.tokens = <<c.path_params, c.http_route>>,
                          !.context = [path_params |-> r.params,
                                       http_route |-> <<r.res.route>>]]]
          /\ heap' = Collect(r.heap, CacheIds(r.cache) \cup TaskIds(tasks'))
    /\ UNCHANGED <<routerVars, call, ret, pc, frameVars, child_router, lifespan>>

\* the handler or a middleware of task t reads path_params.get() and
\* http_route.get()
TaskGet(t) ==
    /\ tasks[t].pc = "handler"
    /\ Len(tasks[t].seen) < MaxGets
    /\ tasks' = [tasks EXCEPT ![t].seen =
          Append(@, [params |-> heap[tasks[t].context.path_params[1]],
                     route |-> tasks[t].context.http_route[1],
                     mutated |-> tasks[t].mutated])]
    /\ UNCHANGED <<routerVars, call, ret, pc, frameVars, child_router, lifespan,
                   cache, heap>>

\* the handler of task t stores into the dict it got: path_params.get()["x"] = ...
TaskSetItem(t) ==
    /\ tasks[t].pc = "handler"
    /\ ~tasks[t].mutated
    /\ heap' = [heap EXCEPT ![tasks[t].context.path_params[1]] =
                  SetItem(@, <<"x">>, <<"e", "v", "i", "l">>)]
    /\ tasks' = [tasks EXCEPT ![t].mutated = TRUE]
    /\ UNCHANGED <<routerVars, call, ret, pc, frameVars, child_router, lifespan,
                   cache>>

\* the end of the dispatch with the Tokens reset only when the handler
\* returned or raised, not when the task was cancelled
TaskExit_no_reset_on_cancel(t, how) ==
    /\ tasks[t].pc = "handler"
    /\ tasks' = [tasks EXCEPT ![t] =
          [@ EXCEPT !.pc = "done", !.ended = how, !.outcome = how,
                    !.tokens = IF how = "CancelledError" THEN @ ELSE <<>>,
                    !.context = IF how = "CancelledError" THEN @
                                ELSE [path_params |-> tasks[t].tokens[1],
                                      http_route |-> tasks[t].tokens[2]]]]
    /\ heap' = Collect(heap, CacheIds(cache) \cup TaskIds(tasks'))
    /\ UNCHANGED <<routerVars, call, ret, pc, frameVars, child_router, lifespan,
                   cache>>

\* the end of "await handler(...)" in task t: the handler returned, raised,
\* or the task was cancelled while the handler was suspended and
\* CancelledError was thrown into it.  The `with` statement leaves through
\* Token.__exit__ on each of these paths: http_route and then path_params
\* are reset to the values the Tokens hold, and the exception, if any, is
\* not suppressed.
TaskExit(t, how) ==
    /\ tasks[t].pc = "handler"
    /\ tasks' = [tasks EXCEPT ![t] =
          [@ EXCEPT !.pc = "done", !.ended = how, !.outcome = how,
                    !.tokens = <<>>,
                    !.context = [path_params |-> tasks[t].tokens[1],
                                 http_route |-> tasks[t].tokens[2]]]]
    /\ heap' = Collect(heap, CacheIds(cache) \cup TaskIds(tasks'))
    /\ UNCHANGED <<routerVars, call, ret, pc, frameVars, child_router, lifespan,
                   cache>>

TaskEndings == {"return", "Exception", "CancelledError"}

TaskNext ==
    \/ \E t \in Tasks, scope \in TaskRequests : TaskCall(t, scope)
    \/ \E t \in Tasks : TaskGet(t)
    \/ \E t \in Tasks : TaskSetItem(t)
    \/ \E t \in Tasks, how \in TaskEndings : TaskExit(t, how)

TaskSpec == TaskInit /\ [][TaskNext]_vars

----------------------------------------------------------------------------
\* Two routers: `child_router` is built by its own method and use calls and
\* mounted on the router of `tree`, before or after they are made.

ChildRoutes ==
    { Route(GET, Str_b, H2, <<M3>>),
      Route(GET, Str_x, H1, <<>>) }
ParentRoutes ==
    { Route(GET, Str_root, H1, <<>>),
      Route(GET, Str_a_b, H2, <<M2>>) }
MountRequests ==
    { Request(GET, Str_root),
      Request(GET, Str_a_b),
      Request(GET, Str_a_c),
      Request(GET, Str_b) }

\* child.method(...)
ChildMethod(r) ==
    /\ pc = "idle"
    /\ RouteCount(child_router) < MaxRoutes
    /\ call' = Call("child.method", r.path, r.method, r.handler, r.middleware)
    /\ LET res == add_route(child_router, r.method, r.path, r.handler, r.middleware)
       IN IF res.err = ""
          THEN child_router' = res.node /\ ret' = Returned
          ELSE child_router' = child_router /\ ret' = Raised(res.err)
    /\ UNCHANGED <<routerVars, pc, frameVars>>

\* child.use with the parent's tree following the child's
ChildUse_live(m) ==
    /\ pc = "idle"
    /\ Len(child_router.middleware) < MaxUse
    /\ call' = Call("child.use", <<>>, <<>>, None, <<m>>)
    /\ child_router' = [child_router EXCEPT !.middleware = @ \o <<m>>]
    /\ tree' = [tree EXCEPT !.middleware = @ \o <<m>>]
    /\ ret' = Returned
    /\ UNCHANGED <<finalized, pc, frameVars>>

\* child.use(m)
ChildUse(m) ==
    /\ pc = "idle"
    /\ Len(child_router.middleware) < MaxUse
    /\ call' = Call("child.use", <<>>, <<>>, None, <<m>>)
    /\ child_router' = [child_router EXCEPT !.middleware = @ \o <<m>>]
    /\ ret' = Returned
    /\ UNCHANGED <<routerVars, pc, frameVars>>

MountInit ==
    /\ tree = Node(None, <<>>, <<>>, <<>>, <<>>, NF, MNA)
    /\ finalized = FALSE
    /\ call = NoCall
    /\ ret = NoReturn
    /\ pc = "idle"
    /\ method = <<>>
    /\ segments = <<>>
    /\ i = 0
    /\ current = EmptyNode
    /\ params = <<>>
    /\ route_parts = <<>>
    /\ ExtInit

MountNext ==
    \/ \E r \in ChildRoutes : ChildMethod(r) /\ UNCHANGED <<lifespan, cache, heap, tasks>>
    \/ ChildUse(IF child_router.middleware = <<>> THEN M2 ELSE M1)
           /\ UNCHANGED <<lifespan, cache, heap, tasks>>
    \/ \E path \in {Str_root, Str_a} : Mount(path, child_router) /\ UNCHANGED extVars
    \/ \E r \in ParentRoutes : Method(r) /\ UNCHANGED extVars
    \/ Finalize /\ UNCHANGED extVars
    \/ \E q \in MountRequests : Handler(q.method, q.path) /\ UNCHANGED extVars
    \/ LoopStep /\ UNCHANGED extVars
    \/ LeafStep /\ UNCHANGED extVars

MountSpec == MountInit /\ [][MountNext]_vars

----------------------------------------------------------------------------
\* Router._handle_lifespan, one await at a time: `lifespan.pc` is "idle"
\* before __call__ got a lifespan scope, "receive" at "await receive()",
\* "send" at "await send(...)" with the event in `lifespan.reply`, and
\* "returned" after the return.

LifespanMessages == {"lifespan.startup", "lifespan.shutdown", "lifespan.other"}

\* Router.__call__ with scope["type"] == "lifespan"
LifespanCall ==
    /\ pc = "idle"
    /\ lifespan.pc = "idle"
    /\ call' = Call("__call__", <<>>, <<>>, None, <<>>)
    /\ ret' = NoReturn
    /\ lifespan' = [lifespan EXCEPT !.pc = "receive"]
    /\ UNCHANGED <<routerVars, pc, frameVars>>

\* the startup branch answering lifespan.startup.complete whatever finalize did
LifespanReceive_always_complete(type) ==
    /\ pc = "idle"
    /\ lifespan.pc = "receive"
    /\ Len(lifespan.received) < MaxMessages
    /\ call' = Call(type, <<>>, <<>>, None, <<>>)
    /\ ret' = NoReturn
    /\ LET res == IF type = "lifespan.startup" THEN finalize(tree, finalized)
                  ELSE [tree |-> tree, finalized |-> finalized, err |-> ""]
           reply == IF type = "lifespan.startup" THEN "lifespan.startup.complete"
                    ELSE IF type = "lifespan.shutdown"
                    THEN "lifespan.shutdown.complete"
                    ELSE ""
       IN /\ tree' = res.tree
          /\ finalized' = res.finalized
          /\ lifespan' = [lifespan EXCEPT
                             !.message = type,
                             !.received = Append(@, type),
                             !.reply = reply,
                             !.pc = IF reply = "" THEN "receive" ELSE "send"]
    /\ UNCHANGED <<pc, frameVars>>

\* "message = await receive()" returning a message of type `type`, up to the
\* next await: finalize() under try / except for lifespan.startup
LifespanReceive(type) ==
    /\ pc = "idle"
    /\ lifespan.pc = "receive"
    /\ Len(lifespan.received) < MaxMessages
    /\ call' = Call(type, <<>>, <<>>, None, <<>>)
    /\ ret' = NoReturn
    /\ LET res == IF type = "lifespan.startup" THEN finalize(tree, finalized)
                  ELSE [tree |-> tree, finalized |-> finalized, err |-> ""]
           reply == IF type = "lifespan.startup"
                    THEN IF res.err = "" THEN "lifespan.startup.complete"
                         ELSE "lifespan.startup.failed"
                    ELSE IF type = "lifespan.shutdown"
                    THEN "lifespan.shutdown.complete"
                    ELSE ""
       IN /\ tree' = res.tree
          /\ finalized' = res.finalized
          /\ lifespan' = [lifespan EXCEPT
                             !.message = type,
                             !.received = Append(@, type),
                             !.reply = reply,
                             !.pc = IF reply = "" THEN "receive" ELSE "send"]
    /\ UNCHANGED <<pc, frameVars>>

\* "await send(...)" completing: the loop goes on after startup.complete and
\* returns after startup.failed and shutdown.complete
LifespanSend ==
    /\ pc = "idle"
    /\ lifespan.pc = "send"
    /\ ret' = [Returned EXCEPT !.msg = lifespan.reply]
    /\ lifespan' = [lifespan EXCEPT
                       !.sent = Append(@, lifespan.reply),
                       !.reply = "",
                       !.pc = IF lifespan.reply = "lifespan.startup.complete"
                              THEN "receive" ELSE "returned"]
    /\ UNCHANGED <<routerVars, call, pc, frameVars>>

LifespanRoutes ==
    { Route(GET, Str_root, H1, <<>>),
      Route(GET, Str_a_b, H2, <<M2>>) }

LifespanNext ==
    \/ \E r \in LifespanRoutes : Method(r) /\ UNCHANGED extVars
    \/ Use(IF tree.middleware = <<>> THEN M1 ELSE M3) /\ UNCHANGED extVars
    \/ \E h \in {NF} : NotFound(h) /\ UNCHANGED extVars
    \/ \E h \in {MNA} : MethodNotAllowed(h) /\ UNCHANGED extVars
    \/ LifespanCall /\ UNCHANGED <<child_router, cache, heap, tasks>>
    \/ \E type \in LifespanMessages :
           LifespanReceive(type) /\ UNCHANGED <<child_router, cache, heap, tasks>>
    \/ LifespanSend /\ UNCHANGED <<child_router, cache, heap, tasks>>

\* the server's send completes, and the event loop resumes the coroutine
LifespanSpec ==
    /\ Init /\ [][LifespanNext]_vars
    /\ WF_vars(LifespanSend /\ UNCHANGED <<child_router, cache, heap, tasks>>)

----------------------------------------------------------------------------
\* Vocabulary of the properties

\* a lookup has returned or raised
LookupDone == pc = "idle" /\ call.op \in {"_handler", "find_handler", "__call__"}

\* the segments of the request the last lookup was called with
CallSegs == Split(Drop1(call.path))

SegA == <<"a">>
HasA == SegA \in DOMAIN tree.children
NodeA == tree.children[SegA]

ErrorHandlers == {NF, MNA, NF2}

\* a position in a tree: the sequence of hops from the root, each a key of
\* children, or WildcardHop / CatchallHop for the wildcard / catchall child
WildcardHop == <<"wildcard">>
CatchallHop == <<"catchall">>
Hops(t) ==
    DOMAIN t.children
        \cup (IF t.wildcard # <<>> THEN {WildcardHop} ELSE {})
        \cup (IF t.catchall # <<>> THEN {CatchallHop} ELSE {})
StepTo(t, hop) ==
    IF hop = WildcardHop THEN t.wildcard[1].child
    ELSE IF hop = CatchallHop THEN t.catchall[1].child
    ELSE t.children[hop]

RECURSIVE Positions(_)
Positions(t) ==
    {<<>>} \cup UNION {{<<hop>> \o pos : pos \in Positions(StepTo(t, hop))} :
                          hop \in Hops(t)}

RECURSIVE HasPosition(_, _)
HasPosition(t, pos) ==
    \/ pos = <<>>
    \/ /\ Head(pos) \in Hops(t)
       /\ HasPosition(StepTo(t, Head(pos)), Tail(pos))

RECURSIVE At(_, _)
At(t, pos) == IF pos = <<>> THEN t ELSE At(StepTo(t, Head(pos)), Tail(pos))

\* the positions of the routes: the method leaves that hold a handler
Leaves(t) == {pos \in Positions(t) : At(t, pos).handler # None}

\* the hops a mount prefix made of literal segments adds in front of the
\* child's positions
PrefixHops(path) == IF path = <<"/">> THEN <<>> ELSE Split(Drop1(path))

\* the (method, route pattern, handler) routes of a tree
Triples(t) == {<<r[1], r[2], r[3]>> : r \in collect_routes(t, <<>>)}

\* the not_found_handler / method_not_allowed_handler registered on the node
\* at `pos` of the tree `t`, or failing that on its nearest ancestor that has
\* one, or the default `d` when no node on the way from the root has one
NotFoundOverrides(t, pos) ==
    {k \in 0..Len(pos) : At(t, SubSeq(pos, 1, k)).not_found_handler # None}
NotAllowedOverrides(t, pos) ==
    {k \in 0..Len(pos) : At(t, SubSeq(pos, 1, k)).method_not_allowed_handler # None}
Deepest(S) == CHOOSE k \in S : \A j \in S : j <= k
NearestNotFound(t, pos, d) ==
    IF NotFoundOverrides(t, pos) = {} THEN d
    ELSE At(t, SubSeq(pos, 1, Deepest(NotFoundOverrides(t, pos)))).not_found_handler
NearestNotAllowed(t, pos, d) ==
    IF NotAllowedOverrides(t, pos) = {} THEN d
    ELSE At(t, SubSeq(pos, 1, Deepest(NotAllowedOverrides(t, pos)))).method_not_allowed_handler

\* a step that ends a lookup without a match for the path: the loop found no
\* child for a segment, or the node the segments led to has no method leaf
Unmatched ==
    \/ pc = "loop" /\ pc' = "idle"
    \/ pc = "leaf" /\ \A k \in DOMAIN current.children : ~IsLeafKey(k)

\* a step of a builder that merged a tree into `tree`, and the tree merged in
\* (the tree2 of its _merge_trees call)
Merging == pc = "idle" /\ call'.op \in {"add_route", "mount_tree"} /\ ret'.kind = "ok"
MergedIn ==
    IF call'.op = "add_route"
    THEN construct_route_tree(call'.method, call'.path, call'.handler,
                              call'.middleware).node
    ELSE LET child == call'.router[1]
             c == IF child.middleware # <<>>
                  THEN cascade_middleware(child, <<>>) ELSE child
         IN IF call'.path = <<"/">> THEN c
            ELSE construct_sub_tree(call'.path, c).node

\* at some position that both trees have, only the node of `a` carries
\* middleware
OnlyFirstHasMiddleware(a, b) ==
    \E pos \in Positions(a) \cap Positions(b) :
        At(a, pos).middleware # <<>> /\ At(b, pos).middleware = <<>>

\* the ways to write a path as p1 ++ p2 with p1 and p2 both starting with "/"
SplitsOf(path) ==
    {sp \in {<<SubSeq(path, 1, k), SubSeq(path, k + 1, Len(path))>> :
                k \in 1..(Len(path) - 1)} :
        StartsWith(sp[1], <<"/">>) /\ StartsWith(sp[2], <<"/">>)}

\* mount_tree(p1, r, mount_tree(p2, Node(), s))
MountTwice(p1, p2, r, s) ==
    LET inner == mount_tree(p2, EmptyNode, s)
    IN IF inner.err # "" THEN inner ELSE mount_tree(p1, r, inner.node)

\* the method column of a route as _collect_routes writes it
MethodStr(m) == IF m = ANY_HTTP THEN <<"*">> ELSE LeafKeyValue(m)

\* the routes of `t` on the method and pattern of the registration `c`
SameRoute(t, c) ==
    {r \in collect_routes(t, <<>>) : r[1] = MethodStr(c.method) /\ r[2] = c.path}

\* the operations that build the router
BuilderOps == {"method", "use", "not_found", "method_not_allowed", "mount", "finalize"}

\* how many times `x` occurs in the sequence `s`
Count(s, x) == Cardinality({k \in 1..Len(s) : s[k] = x})

\* what a step of the lifespan loop may do
HandshakeStep ==
    /\ (lifespan.pc = "send" /\ lifespan'.pc # "send") =>
          /\ lifespan'.sent = Append(lifespan.sent, lifespan.reply)
          /\ lifespan.reply =
                IF lifespan.message = "lifespan.shutdown"
                THEN "lifespan.shutdown.complete"
                ELSE IF finalized THEN "lifespan.startup.complete"
                ELSE "lifespan.startup.failed"
          /\ lifespan'.pc = "returned" <=>
                lifespan.reply # "lifespan.startup.complete"
    /\ (lifespan.pc = "receive" /\ call'.op = "lifespan.startup") =>
          /\ lifespan'.pc = "send"
          /\ finalized' <=> finalize(tree, finalized).err = ""
    /\ (lifespan.pc = "receive" /\ call'.op = "lifespan.shutdown") =>
          lifespan'.pc = "send" /\ lifespan'.reply = "lifespan.shutdown.complete"
    /\ Len(lifespan'.sent) =
          Count(lifespan'.received, "lifespan.startup")
          + Count(lifespan'.received, "lifespan.shutdown")
          - (IF lifespan'.pc = "send" THEN 1 ELSE 0)
    /\ lifespan.pc = "returned" => lifespan' = lifespan

\* what the traversal of the router's tree gives for the request of task t
Own(t) == find_handler(tasks[t].scope.path, tasks[t].scope.method, tree)

\* the params of task t's request after the handler's own store
OwnStored(t) == SetItem(Own(t).params, <<"x">>, <<"e", "v", "i", "l">>)

\* task t has been dispatched
Dispatched(t) == tasks[t].pc \in {"handler", "done"}

\* every request dispatched next to task t's has another path
OtherPaths(t) ==
    \A u \in Tasks \ {t} : Dispatched(u) => tasks[u].scope.path # tasks[t].scope.path

\* a step that finalized the router
Finalizing == call'.op \in {"finalize", "lifespan.startup"} /\ ~finalized /\ finalized'

\* a route segment "{name}" or "{name...}" replaced by params[name]
Substitute(seg, ps) ==
    IF IsCatchallSeg(seg) THEN ps[SubSeq(seg, 2, Len(seg) - 4)]
    ELSE IF IsWildcardSeg(seg) THEN ps[SubSeq(seg, 2, Len(seg) - 1)]
    ELSE seg

\* the route pattern with every placeholder replaced by its parameter
Rebuild(route, ps) ==
    LET parts == Split(Drop1(route))
    IN <<"/">> \o Join([k \in 1..Len(parts) |-> Substitute(parts[k], ps)])

----------------------------------------------------------------------------
\* C1: on a tree that finalize_tree produced from any tree built by
\* add_route / mount_tree with non-null defaults, every find_handler call
\* returns (never raises) and the handler it returns is not None.
C1_Totality ==
    (LookupDone /\ call.op = "find_handler")
        => (ret.kind = "found" /\ ret.handler # None)

\* a request below a mounted or registered subtree that no route matches got
\* the default that finalize_tree cascaded down
C1_Witness ==
    /\ LookupDone /\ call.op = "find_handler"
    /\ call.path = Str_a_c_d
    /\ HasA /\ NodeA.wildcard # <<>>
    /\ tree.not_found_handler = NF
    /\ ret.kind = "found" /\ ret.handler = NF

\* C2: in every iteration of find_handler's loop, a segment that is a key of
\* the node's children descends into that child even if the node has a
\* wildcard or a catchall; otherwise a wildcard, if there is one, is taken even
\* if the node has a catchall; the catchall is taken only when neither
\* applies, and then the loop ends.
C2_Priority ==
    [][pc = "loop" =>
        LET seg == segments[i]
        IN IF seg \in DOMAIN current.children
           THEN current' = current.children[seg] /\ params' = params
           ELSE IF current.wildcard # <<>>
           THEN /\ current' = current.wildcard[1].child
                /\ params'[current.wildcard[1].name] = seg
           ELSE IF current.catchall # <<>>
           THEN /\ current' = current.catchall[1].child
                /\ pc' = "leaf"
           ELSE pc' = "idle"]_vars

\* the exact route /a/b was matched at a node that also has a wildcard
C2_Witness ==
    /\ LookupDone
    /\ HasA /\ NodeA.wildcard # <<>> /\ <<"b">> \in DOMAIN NodeA.children
    /\ call.path = Str_a_b
    /\ ret.kind = "found" /\ ret.route = Str_a_b

\* C3 as stated: with a wildcard route /a/{x}/b and a catchall route
\* /a/{p...}, a request /a/c/d, for which the wildcard branch has no
\* continuation, resolves to the catchall route with p = "c/d".
C3_CatchallLastResort ==
    ( /\ LookupDone /\ finalized
      /\ call.method = GET /\ call.path = Str_a_c_d
      /\ HasA /\ NodeA.wildcard # <<>> /\ NodeA.catchall # <<>>
      /\ GET \in DOMAIN NodeA.catchall[1].child.children )
        => /\ ret.kind = "found"
           /\ ret.handler = NodeA.catchall[1].child.children[GET].handler
           /\ ret.params = (NodeA.catchall[1].name :> <<"c", "/", "d">>)

\* C3 amended: when a node has a wildcard and a catchall and the segment has
\* no exact-match child, the wildcard branch is taken whether or not it has a
\* continuation and the lookup never comes back to the catchall: the result
\* is a route through the wildcard or an error handler, and when the node the
\* wildcard leads to has nothing for the next segment it is that node's
\* not_found_handler.
C3_WildcardNoBacktrack ==
    ( /\ LookupDone /\ ret.kind = "found"
      /\ HasA /\ NodeA.wildcard # <<>> /\ NodeA.catchall # <<>>
      /\ Len(CallSegs) >= 2 /\ CallSegs[1] = SegA
      /\ CallSegs[2] \notin DOMAIN NodeA.children )
        => LET w == NodeA.wildcard[1]
           IN /\ ret.route # <<>> =>
                    Split(Drop1(ret.route))[2] = <<"{">> \o w.name \o <<"}">>
              /\ ( /\ Len(CallSegs) >= 3
                   /\ CallSegs[3] \notin DOMAIN w.child.children
                   /\ w.child.wildcard = <<>>
                   /\ w.child.catchall = <<>> )
                    => /\ ret.handler = w.child.not_found_handler
                       /\ ret.route = <<>>

\* GET /a/c/d on a finalized router with /a/{x}/b and /a/{p...} got the
\* not-found handler
C3_Witness ==
    /\ LookupDone /\ finalized
    /\ call.method = GET /\ call.path = Str_a_c_d
    /\ HasA /\ NodeA.wildcard # <<>> /\ NodeA.catchall # <<>>
    /\ GET \in DOMAIN NodeA.catchall[1].child.children
    /\ <<"b">> \in DOMAIN NodeA.wildcard[1].child.children
    /\ ret.kind = "found" /\ ret.handler = NF /\ ret.route = <<>>

\* C4: at the node the segments led to, a lookup that finds no method-token
\* child at all answers with the node's not_found_handler; it answers with
\* the method_not_allowed_handler only if the node has a method-token child
\* but none for the request's method and none for ANY_HTTP.
C4_NotFoundVsNotAllowed ==
    [][pc = "leaf" =>
        LET keys == DOMAIN current.children
            noLeaf == \A k \in keys : ~IsLeafKey(k)
        IN /\ noLeaf =>
                IF current.not_found_handler = None
                THEN ret'.kind = "raise" /\ ret'.msg = "No not found handler set"
                ELSE /\ ret'.kind = "found"
                     /\ ret'.handler = current.not_found_handler
           /\ ( \/ ret'.msg = "No method not allowed handler set"
                \/ /\ ret'.kind = "found"
                   /\ ret'.handler = current.method_not_allowed_handler
                   /\ ret'.handler \notin {current.not_found_handler}
                                           \cup {current.children[k].handler : k \in keys} )
                => /\ ~noLeaf
                   /\ method \notin keys
                   /\ ANY_HTTP \notin keys]_vars

\* GET /a was answered 404 by a node /a that only has deeper routes
C4_Witness ==
    /\ LookupDone /\ finalized
    /\ call.path = Str_a
    /\ HasA /\ DOMAIN NodeA.children = {<<"b">>}
    /\ ret.kind = "found" /\ ret.handler = NodeA.not_found_handler
    /\ ret.handler # NodeA.method_not_allowed_handler

\* C5: a lookup that resolves to a not_found_handler or a
\* method_not_allowed_handler returns the empty middleware tuple and the
\* empty route pattern, so that Router._handler returns the error handler
\* itself, unwrapped, whatever middleware the nodes carry.
C5_ErrorHandlersBare ==
    (LookupDone /\ ret.kind = "found" /\ ret.handler \in ErrorHandlers)
        => /\ ret.middleware = <<>>
           /\ ret.route = <<>>
           /\ ret.wrapped = <<ret.handler>>

\* a 405 from a finalized router whose nodes all carry the use() middleware
C5_Witness ==
    /\ LookupDone /\ finalized /\ call.op = "_handler"
    /\ tree.middleware # <<>>
    /\ HasA /\ NodeA.middleware # <<>>
    /\ ret.kind = "found" /\ ret.handler = MNA /\ ret.wrapped = <<MNA>>

\* C6: at a node with a leaf for the request's method the lookup returns that
\* leaf, also when the node has an ANY_HTTP leaf; the ANY_HTTP leaf is returned
\* for an HTTP method exactly when the node has no leaf for that method.
C6_AnyHttpIsFallback ==
    [][(pc = "leaf" /\ method \in HTTPMethods
            /\ ANY_HTTP \in DOMAIN current.children) =>
        LET keys == DOMAIN current.children
            leaf == IF method \in keys THEN current.children[method]
                    ELSE current.children[ANY_HTTP]
        IN /\ ret'.kind = "found"
           /\ ret'.handler = leaf.handler
           /\ ret'.middleware = leaf.middleware]_vars

\* GET /a returned the GET leaf's handler at a node that also has an ANY_HTTP
\* leaf with another handler
C6_Witness ==
    /\ LookupDone
    /\ call.path = Str_a /\ call.method = GET
    /\ HasA /\ {GET, ANY_HTTP} \subseteq DOMAIN NodeA.children
    /\ NodeA.children[GET].handler = H1
    /\ NodeA.children[ANY_HTTP].handler = H2
    /\ ret.kind = "found" /\ ret.handler = H1

\* C7 as stated: a WEBSOCKET lookup at a node that has an ANY_HTTP leaf but no
\* WEBSOCKET leaf never returns the ANY_HTTP leaf's handler.
C7_WebsocketNeverAnyHttp ==
    [][(pc = "leaf" /\ method = WEBSOCKET
            /\ ANY_HTTP \in DOMAIN current.children
            /\ WEBSOCKET \notin DOMAIN current.children) =>
        ~(ret'.kind = "found"
            /\ ret'.handler = current.children[ANY_HTTP].handler)]_vars

\* C7 amended: ANY_HTTP is the fallback of every method token, WEBSOCKET
\* included: a WEBSOCKET lookup returns the node's WEBSOCKET leaf when it has
\* one and otherwise its ANY_HTTP leaf (handler and middleware) when it has
\* one.
C7_AnyHttpCoversWebsocket ==
    [][(pc = "leaf" /\ method = WEBSOCKET
            /\ ANY_HTTP \in DOMAIN current.children) =>
        LET keys == DOMAIN current.children
            leaf == IF WEBSOCKET \in keys THEN current.children[WEBSOCKET]
                    ELSE current.children[ANY_HTTP]
        IN /\ ret'.kind = "found"
           /\ ret'.handler = leaf.handler
           /\ ret'.middleware = leaf.middleware
           /\ ret'.route # <<>>]_vars

\* WEBSOCKET /a got the handler registered with handle() on /a
C7_Witness ==
    /\ LookupDone
    /\ call.path = Str_a /\ call.method = WEBSOCKET
    /\ HasA /\ ANY_HTTP \in DOMAIN NodeA.children
    /\ WEBSOCKET \notin DOMAIN NodeA.children
    /\ ret.kind = "found" /\ ret.handler = NodeA.children[ANY_HTTP].handler
    /\ ret.route = Str_a

C9_RoundTrip ==
    ( /\ LookupDone /\ ret.kind = "found" /\ ret.route # <<>>
      /\ StartsWith(call.path, <<"/">>) )
        => Rebuild(ret.route, ret.params) = call.path

\* C10: once finalize() has returned, every later registration is rejected
\* and the router's tree never changes again.
C10_FrozenAfterFinalize ==
    [][finalized =>
        /\ tree' = tree
        /\ (pc = "idle" /\ call'.op = "method") => ret'.kind = "raise"]_vars

\* C11 as stated: a request dispatched to a router that has both error
\* handlers is looked up after the router finalized itself, so that when the
\* lookup is done the router is finalized.
C11_LazyFinalize ==
    ( /\ LookupDone /\ call.op \in {"_handler", "__call__"}
      /\ tree.not_found_handler # None
      /\ tree.method_not_allowed_handler # None )
        => finalized

\* C11 amended: dispatch never finalizes.  Every step of a lookup leaves the
\* tree and the finalized flag as they are and the lookup starts from the
\* tree as it is; the flag is only set by finalize(), called explicitly or
\* by the lifespan startup event, which replaces the tree by its
\* finalize_tree.
C11_FinalizeOnlyExplicit ==
    [][/\ call'.op \in {"_handler", "__call__"} =>
            /\ tree' = tree
            /\ finalized' = finalized
            /\ (pc = "idle" /\ pc' = "loop") => current' = tree
       /\ finalized' # finalized =>
            /\ call'.op \in {"finalize", "lifespan.startup"}
            /\ finalized'
            /\ tree' = finalize_tree(tree, tree.not_found_handler,
                                     tree.method_not_allowed_handler, <<>>)]_vars

\* a route was resolved on a router that has both error handlers and use()
\* middleware but was never finalized: the leaf carries no cascaded middleware
C11_Witness ==
    /\ LookupDone /\ call.op = "_handler" /\ ~finalized
    /\ tree.not_found_handler # None
    /\ tree.method_not_allowed_handler # None
    /\ tree.middleware # <<>>
    /\ ret.kind = "found" /\ ret.route # <<>> /\ ret.middleware = <<>>

\* C12: on a router finalized with both error handlers, every dispatch of an
\* http or websocket scope resolves to a handler (route, 404 or 405) and
\* invokes it; the router raises nothing of its own.
C12_NoRouterErrors ==
    (LookupDone /\ call.op = "__call__" /\ finalized)
        => /\ ret.kind = "found"
           /\ ret.handler # None
           /\ <<"call", ret.handler>> \in {ret.events[k] : k \in 1..Len(ret.events)}

\* C13: for a matched leaf with middleware (m1, ..., mN), dispatch builds
\* m1(m2(...mN(handler)...)): the factories are applied mN first and m1 last,
\* and awaiting the result enters m1, m2, ..., mN, then calls the handler,
\* then leaves mN, ..., m1.
C13_MiddlewareOrder ==
    (LookupDone /\ call.op = "__call__" /\ ret.kind = "found")
        => LET mw == ret.middleware
               N == Len(mw)
           IN /\ ret.wrapped = mw \o <<ret.handler>>
              /\ ret.applied = [k \in 1..N |-> mw[N + 1 - k]]
              /\ ret.events =
                    [k \in 1..(2 * N + 1) |->
                        IF k <= N THEN <<"enter", mw[k]>>
                        ELSE IF k = N + 1 THEN <<"call", ret.handler>>
                        ELSE <<"exit", mw[2 * N + 2 - k]>>]

\* a dispatch of GET /a/b ran the use() middleware outside the route's own
C13_Witness ==
    /\ LookupDone /\ call.op = "__call__" /\ finalized
    /\ ret.kind = "found" /\ ret.handler = H2
    /\ ret.middleware = <<M1, M2>>
    /\ ret.applied = <<M2, M1>>
    /\ ret.events = << <<"enter", M1>>, <<"enter", M2>>, <<"call", H2>>,
                       <<"exit", M2>>, <<"exit", M1>> >>

\* C14: use() commutes with every route registration: registering a route
\* after a use() call gives the tree that the use() call gives after the
\* registration (or the same error), so every interleaving of a sequence of
\* use() calls with a set of registrations builds the same tree; and
\* finalize puts the use()-registered middleware, in use() order, in front
\* of the middleware of every route.
C14_UseOrderInsensitive ==
    [][/\ (pc = "idle" /\ call'.op = "use" /\ ret'.kind = "ok") =>
            \A r \in Routes :
                LET after == add_route(tree', r.method, r.path, r.handler, r.middleware)
                    before == add_route(tree, r.method, r.path, r.handler, r.middleware)
                IN /\ after.err = before.err
                   /\ after.err = "" =>
                        after.node = [before.node EXCEPT !.middleware = tree'.middleware]
       /\ Finalizing =>
            /\ Leaves(tree') = Leaves(tree)
            /\ \A pos \in Leaves(tree) :
                    At(tree', pos).middleware = tree.middleware \o At(tree, pos).middleware]_vars

\* the second use() call was made on a router that already holds a route and
\* can still take another
C14_Witness ==
    /\ pc = "idle" /\ call.op = "use" /\ ret.kind = "ok"
    /\ tree.middleware = <<M1, M3>>
    /\ RouteCount(tree) >= 1 /\ RouteCount(tree) < MaxRoutes
    /\ \E pos \in Leaves(tree) : At(tree, pos).middleware = <<M2>>

\* C15: when a router that has use() middleware M is mounted, each of its
\* routes, with per-route middleware R, appears under the prefix with the
\* middleware M ++ R; a use() call on the parent, before or after the mount,
\* leaves every route leaf as it is and appends to the root's middleware P;
\* and the parent's finalize gives every route leaf P ++ (what it carried),
\* that is, P ++ M ++ R for the mounted routes.
C15_MountMiddleware ==
    [][/\ ( /\ pc = "idle" /\ call'.op = "mount" /\ ret'.kind = "ok"
            /\ call'.router[1].middleware # <<>> ) =>
            LET child == call'.router[1]
            IN \A pos \in Leaves(child) :
                   LET there == PrefixHops(call'.path) \o pos
                   IN /\ HasPosition(tree', there)
                      /\ At(tree', there).handler = At(child, pos).handler
                      /\ At(tree', there).middleware =
                             child.middleware \o At(child, pos).middleware
       /\ (pc = "idle" /\ call'.op = "use") =>
            /\ Leaves(tree') = Leaves(tree)
            /\ \A pos \in Leaves(tree) : At(tree', pos) = At(tree, pos)
            /\ tree'.middleware = tree.middleware \o call'.middleware
       /\ Finalizing =>
            \A pos \in Leaves(tree) :
                At(tree', pos).middleware = tree.middleware \o At(tree, pos).middleware]_vars

\* finalize ran on a parent with use(M1) that mounted, at /a, the router with
\* use(M2) and the route /b carrying (M3,): the leaf of GET /a/b carries
\* (M1, M2, M3)
C15_Witness ==
    /\ pc = "idle" /\ call.op = "finalize" /\ finalized
    /\ tree.middleware = <<M1>>
    /\ HasPosition(tree, <<SegA, <<"b">>, GET>>)
    /\ At(tree, <<SegA, <<"b">>, GET>>).handler = H2
    /\ At(tree, <<SegA, <<"b">>, GET>>).middleware = <<M1, M2, M3>>

\* C16 as stated: after a successful mount(prefix, child) the routes of the
\* parent are its routes before the mount together with (m, prefix ++ p, h)
\* for every route (m, p, h) of the child.
C16_MountIsPrefixedUnion ==
    [][(pc = "idle" /\ call'.op = "mount" /\ ret'.kind = "ok") =>
        Triples(tree') =
            Triples(tree) \cup {<<r[1], call'.path \o r[2], r[3]>> :
                                   r \in Triples(call'.router[1])}]_vars

\* C16 amended: the routes after a successful mount are the parent's routes
\* before it together with the child's routes re-rooted at the prefix,
\* (m, prefix ++ p, h) for a prefix other than "/" and (m, p, h) itself for
\* the prefix "/", which merges the child at the root.
C16_MountIsRerootedUnion ==
    [][(pc = "idle" /\ call'.op = "mount" /\ ret'.kind = "ok") =>
        Triples(tree') =
            Triples(tree) \cup
                {<<r[1], IF call'.path = <<"/">> THEN r[2] ELSE call'.path \o r[2], r[3]>> :
                    r \in Triples(call'.router[1])}]_vars

\* a router holding GET / mounted, at /a, the router whose route is GET /b
C16_Witness ==
    /\ pc = "idle" /\ call.op = "mount" /\ ret.kind = "ok"
    /\ call.path = Str_a
    /\ <<LeafKeyValue(GET), Str_b, H2>> \in Triples(call.router[1])
    /\ Triples(tree) = {<<LeafKeyValue(GET), Str_root, H1>>,
                        <<LeafKeyValue(GET), Str_a_b, H2>>}

\* C17: finalize_tree(t, d1, d2, ()) gives every node the not_found_handler
\* (likewise the method_not_allowed_handler) registered on the node itself
\* or, failing that, on its nearest ancestor that has one, and the default
\* d1 (d2) only when no node from the root down to it has one; and a lookup
\* of an unmatched path below /a, when /a holds an override that the root
\* does not, returns that override.
C17_NearestAncestor ==
    [][/\ (pc = "idle" /\ call'.op = "finalize_tree") =>
            /\ Positions(tree') = Positions(tree)
            /\ \A pos \in Positions(tree) :
                  /\ At(tree', pos).not_found_handler
                        = NearestNotFound(tree, pos, call'.defaults[1])
                  /\ At(tree', pos).method_not_allowed_handler
                        = NearestNotAllowed(tree, pos, call'.defaults[2])
       /\ (/\ Unmatched /\ finalized
           /\ segments # <<>> /\ Head(segments) = SegA
           /\ HasA /\ NodeA.not_found_handler = NF2
           /\ tree.not_found_handler # NF2) =>
            ret'.kind = "found" /\ ret'.handler = NF2]_vars

\* GET /a/c/d on the tree that holds the router with the NF2 override mounted
\* at /a and was finalized with another default: the override is returned
C17_Witness ==
    /\ LookupDone /\ finalized /\ call.op = "find_handler"
    /\ call.path = Str_a_c_d
    /\ tree.not_found_handler \in {NF, MNA}
    /\ HasA /\ NodeA.not_found_handler = NF2
    /\ NodeA.wildcard # <<>> /\ NodeA.wildcard[1].child.not_found_handler = NF2
    /\ ret.kind = "found" /\ ret.handler = NF2

\* C18: for every tree t and defaults d1, d2, applying finalize_tree to
\* finalize_tree(t, d1, d2, ()) with the same defaults gives a tree equal to
\* finalize_tree(t, d1, d2, ()), also when nodes of t carry middleware.
C18_FinalizeIdempotent ==
    [][(pc = "idle" /\ call'.op = "finalize_tree") =>
        finalize_tree(tree', call'.defaults[1], call'.defaults[2], <<>>) = tree']_vars

\* C19 as stated: whenever _merge_trees(a, b) succeeds, _merge_trees(b, a)
\* succeeds too and gives an equal tree, also when only one of the two nodes
\* at some position carries middleware.
C19_MergeCommutes ==
    [][Merging =>
        LET rev == merge_trees(MergedIn, tree)
        IN rev.err = "" /\ rev.node = tree']_vars

\* C19 amended: whenever _merge_trees(a, b) succeeds, _merge_trees(b, a)
\* succeeds with an equal tree unless at some position of both trees only
\* a's node carries middleware; in that case _merge_trees(b, a) raises
\* "node being merged in has conflicting middleware".
C19_MergeCommutesUpToMiddleware ==
    [][Merging =>
        LET rev == merge_trees(MergedIn, tree)
        IN /\ merge_trees(tree, MergedIn) = Ok(tree')
           /\ IF OnlyFirstHasMiddleware(tree, MergedIn)
              THEN rev.err = "node being merged in has conflicting middleware"
              ELSE rev.err = "" /\ rev.node = tree']_vars

\* GET /a/b with middleware M2 was merged into a tree that has no middleware
\* on its nodes and already held a route below /a
C19_Witness ==
    /\ pc = "idle" /\ call.op = "add_route" /\ ret.kind = "ok"
    /\ call.path = Str_a_b /\ call.middleware = <<M2>>
    /\ tree.middleware = <<>>
    /\ RouteCount(tree) = 2
    /\ HasA /\ NodeA.middleware = <<>>
    /\ NodeA.wildcard # <<>> /\ <<"b">> \in DOMAIN NodeA.children

\* C20 as stated: for all trees r and s and prefixes p1, p2 with p1 ++ p2 a
\* valid mount path, mount_tree(p1, r, mount_tree(p2, Node(), s)) equals
\* mount_tree(p1 ++ p2, r, s), also when s has middleware on its root.
C20_MountAssociative ==
    [][(pc = "idle" /\ call'.op = "mount_tree") =>
        \A sp \in SplitsOf(call'.path) :
            MountTwice(sp[1], sp[2], tree, call'.router[1])
                = mount_tree(call'.path, tree, call'.router[1])]_vars

\* C20 amended: the same for every p1 other than "/"; mounting at "/" merges
\* at the root and adds no segment, while "/" ++ p2 has an empty first
\* segment.
C20_MountAssociativeBelowRoot ==
    [][(pc = "idle" /\ call'.op = "mount_tree") =>
        /\ ret'.kind = "ok" =>
              mount_tree(call'.path, tree, call'.router[1]) = Ok(tree')
        /\ \A sp \in SplitsOf(call'.path) :
              sp[1] # <<"/">> =>
                MountTwice(sp[1], sp[2], tree, call'.router[1])
                    = mount_tree(call'.path, tree, call'.router[1])]_vars

\* the router with use() middleware on its root was mounted at /a/b, which
\* is /a ++ /b, on a tree that held a route
C20_Witness ==
    /\ pc = "idle" /\ call.op = "mount_tree" /\ ret.kind = "ok"
    /\ call.path = Str_a_b
    /\ <<Str_a, Str_b>> \in SplitsOf(call.path)
    /\ call.router[1].middleware = <<M2>>
    /\ RouteCount(tree) = 2
    /\ HasA /\ <<"b">> \in DOMAIN NodeA.children
    /\ <<"b">> \in DOMAIN NodeA.children[<<"b">>].children

\* C24 as stated: add_route fails with "conflicting handlers" exactly when
\* the tree holds another handler on the same method and route pattern, and
\* registering the handler the tree already holds there succeeds and leaves
\* the tree equal.
C24_ConflictingHandlers ==
    [][(pc = "idle" /\ call'.op = "add_route") =>
        /\ ret'.msg = "nodes have conflicting handlers"
              <=> \E r \in SameRoute(tree, call') : r[3] # call'.handler
        /\ (\E r \in SameRoute(tree, call') : r[3] = call'.handler)
              => ret'.kind = "ok" /\ tree' = tree]_vars

\* C24 amended: the first half as stated; registering the handler the tree
\* already holds on the method and pattern succeeds and leaves the tree
\* equal when the registration carries no middleware or the middleware the
\* route already has, and fails with "conflicting middleware" otherwise.
C24_ConflictingHandlersOrMiddleware ==
    [][(pc = "idle" /\ call'.op = "add_route") =>
        /\ ret'.msg = "nodes have conflicting handlers"
              <=> \E r \in SameRoute(tree, call') : r[3] # call'.handler
        /\ \A r \in SameRoute(tree, call') :
              r[3] = call'.handler =>
                IF call'.middleware = <<>> \/ call'.middleware = r[4]
                THEN ret'.kind = "ok" /\ tree' = tree
                ELSE /\ ret'.msg = "node being merged in has conflicting middleware"
                     /\ tree' = tree]_vars

\* GET /a was registered with H2 on a tree that held GET /a with H1, and the
\* call raised
C24_Witness ==
    /\ pc = "idle" /\ call.op = "add_route"
    /\ call.method = GET /\ call.path = Str_a /\ call.handler = H2
    /\ <<LeafKeyValue(GET), Str_a, H1>> \in Triples(tree)
    /\ ret.kind = "raise" /\ ret.msg = "nodes have conflicting handlers"

\* C25: mount_tree wraps the child in exact-match nodes only: after a
\* successful mount every node of the tree is a node the parent had, or one
\* of the literal nodes spelling the prefix, or a node of the child below
\* them, so that a prefix segment {name} or {name...} never becomes a
\* wildcard or catchall node.
C25_MountPrefixLiteral ==
    [][(pc = "idle" /\ call'.op = "mount_tree" /\ ret'.kind = "ok") =>
        LET hops == PrefixHops(call'.path)
        IN \A pos \in Positions(tree') :
              \/ pos \in Positions(tree)
              \/ Len(pos) <= Len(hops) /\ pos = SubSeq(hops, 1, Len(pos))
              \/ Len(pos) > Len(hops) /\ SubSeq(pos, 1, Len(hops)) = hops]_vars

\* C26: /a and /a/ are distinct routes.  Registering one of them raises only
\* if the tree already has a route on that same method and pattern; a lookup
\* of /a never returns the route /a/ nor a lookup of /a/ the route /a; with
\* GET /a the only route, GET /a/ returns the not-found handler; and with
\* GET /a and GET /a/ both registered each path returns its own handler.
C26_TrailingSlashDistinct ==
    [][/\ (pc = "idle" /\ call'.op = "method" /\ call'.path \in {Str_a, Str_a_}
            /\ ret'.kind = "raise") => SameRoute(tree, call') # {}
       /\ (LookupDone' /\ call'.op = "_handler" /\ finalized' /\ ret'.kind = "found"
            /\ call'.path \in {Str_a, Str_a_}) =>
            LET other == IF call'.path = Str_a THEN Str_a_ ELSE Str_a
                own == {r \in Triples(tree') : r[1] = MethodStr(call'.method)
                                               /\ r[2] = call'.path}
            IN /\ ret'.route # other
               /\ (call'.path = Str_a_
                    /\ \E h \in {H1, H2} :
                          Triples(tree') = {<<LeafKeyValue(GET), Str_a, h>>})
                      => ret'.handler = tree'.not_found_handler /\ ret'.route = <<>>
               /\ ({r[2] : r \in Triples(tree')} = {Str_a, Str_a_} /\ own # {})
                      => /\ ret'.route = call'.path
                         /\ \E r \in own : ret'.handler = r[3]]_vars

\* GET /a/ was looked up on the finalized router that holds GET /a with H1
\* and GET /a/ with H2, and returned H2
C26_Witness ==
    /\ LookupDone /\ call.op = "_handler" /\ finalized
    /\ call.path = Str_a_ /\ call.method = GET
    /\ Triples(tree) = {<<LeafKeyValue(GET), Str_a, H1>>,
                        <<LeafKeyValue(GET), Str_a_, H2>>}
    /\ ret.kind = "found" /\ ret.handler = H2 /\ ret.route = Str_a_

\* C28: a Router builder operation that raises leaves the tree and the
\* finalized flag as they were before the call.
C28_FailedBuildAtomic ==
    [][(pc = "idle" /\ call'.op \in BuilderOps /\ ret'.kind = "raise") =>
        tree' = tree /\ finalized' = finalized]_vars

\* mount("/a/", r) raised on a router that holds a route
C28_Witness ==
    /\ pc = "idle" /\ call.op = "mount" /\ call.path = Str_a_
    /\ ret.kind = "raise" /\ ret.msg = "mount path cannot end in /"
    /\ RouteCount(tree) = 1

\* C29: parent.mount(prefix, child) leaves the child's tree as it was, and a
\* use() or a route registration on the child changes neither the parent's
\* tree or finalized flag nor what find_handler returns on the parent for
\* any request.
C29_MountSnapshot ==
    [][/\ (pc = "idle" /\ call'.op = "mount") => child_router' = child_router
       /\ (pc = "idle" /\ call'.op \in {"child.method", "child.use"}) =>
            /\ tree' = tree /\ finalized' = finalized
            /\ \A q \in MountRequests :
                  find_handler(q.path, q.method, tree')
                      = find_handler(q.path, q.method, tree)]_vars

\* the child was mounted at /a when it held GET /b with (M3,), and then
\* child.use(M2) ran: the parent's route /a/b still carries (M3,) only
C29_Witness ==
    /\ pc = "idle" /\ call.op = "child.use"
    /\ child_router.middleware = <<M2>>
    /\ <<LeafKeyValue(GET), Str_a_b, H2, <<M3>>>> \in collect_routes(tree, <<>>)
    /\ <<LeafKeyValue(GET), Str_b, H2, <<M3>>>> \in collect_routes(child_router, <<>>)

C21_CacheTransparent ==
    /\ Len(cache) <= maxsize
    /\ (pc = "idle" /\ call.op = "find_handler" /\ call.router # <<>>) =>
          ret = find_handler(call.path, call.method, call.router[1])

\* the cache is full, it has evicted an entry (the dict of one of its
\* entries was made while maxsize others were held), and GET /a/b has just
\* been answered from the wildcard tree with the params of the traversal
C21_Witness ==
    /\ pc = "idle" /\ call.op = "find_handler" /\ call.router # <<>>
    /\ Len(cache) = maxsize
    /\ \E k \in 1..Len(cache) : cache[k].params > maxsize
    /\ call.path = Str_a_b /\ call.method = GET
    /\ ret.kind = "found" /\ ret.handler = H1
    /\ ret.params = SetItem(<<>>, <<"x">>, <<"b">>)

\* C22: when a dispatch has ended, by the handler returning, raising, or the
\* task being cancelled while the handler was suspended, path_params and
\* http_route are bound in the task's context to what they were bound to
\* before the dispatch (or unbound as before), no Token is left, and the
\* caller gets the very ending of the handler: its return, its exception or
\* the CancelledError.
C22_BindingsReleased ==
    \A t \in Tasks :
        tasks[t].pc = "done" =>
            /\ tasks[t].context = tasks[t].before
            /\ tasks[t].tokens = <<>>
            /\ tasks[t].outcome = tasks[t].ended

\* one dispatch ended by cancellation in a context that had outer bindings,
\* the other by an exception in a context that had none, both after their
\* handlers had read the bindings of the request
C22_Witness ==
    /\ tasks["t2"].pc = "done" /\ tasks["t2"].ended = "CancelledError"
    /\ tasks["t2"].before = Outer /\ tasks["t2"].context = Outer
    /\ Len(tasks["t2"].seen) > 0 /\ tasks["t2"].seen[1].route = Own("t2").route
    /\ tasks["t1"].pc = "done" /\ tasks["t1"].ended = "Exception"
    /\ tasks["t1"].outcome = "Exception"
    /\ tasks["t1"].before = Unbound /\ tasks["t1"].context = Unbound
    /\ Len(tasks["t1"].seen) > 0

\* C23: while the requests dispatched in the two tasks have different
\* paths, everything a handler or middleware has read from path_params and
\* http_route, at its first read or at a later one with the other task's
\* steps in between, is the route and the params of its own request (with
\* its own store, once it has made one), never those of the other task.
C23_TaskIsolation ==
    \A t \in Tasks :
        (Dispatched(t) /\ OtherPaths(t)) =>
            \A k \in 1..Len(tasks[t].seen) :
                /\ tasks[t].seen[k].route = Own(t).route
                /\ tasks[t].seen[k].params =
                      IF tasks[t].seen[k].mutated THEN OwnStored(t)
                      ELSE Own(t).params

\* both handlers are in flight with different paths, each has read its
\* bindings twice, and one of them has stored into its params in between
C23_Witness ==
    /\ \A t \in Tasks : tasks[t].pc = "handler" /\ Len(tasks[t].seen) = MaxGets
    /\ tasks["t1"].scope.path = Str_a_b /\ tasks["t2"].scope.path = Str_a_c
    /\ tasks["t1"].seen[1].params = SetItem(<<>>, <<"x">>, <<"b">>)
    /\ tasks["t2"].seen[1].params = SetItem(<<>>, <<"x">>, <<"c">>)
    /\ tasks["t2"].seen[2].params = SetItem(<<>>, <<"x">>, <<"c">>)
    /\ ~tasks["t1"].seen[1].mutated /\ tasks["t1"].seen[2].mutated

\* C30: what a handler reads from path_params before it stores anything
\* itself is the params of its own request as the lookup extracts them,
\* whatever the handlers of earlier or concurrent requests for the same
\* path and method stored into the mapping they read.
C30_ParamsPerRequest ==
    \A t \in Tasks :
        Dispatched(t) =>
            \A k \in 1..Len(tasks[t].seen) :
                ~tasks[t].seen[k].mutated => tasks[t].seen[k].params = Own(t).params

====
